---- MODULE Spec2Model ----
(***************************************************************************)
(* Team Alchemy: trait profiles, archetype classification, the Jungian     *)
(* MBTI mapper, the Freudian defense analyzer, team diversity, the CLI     *)
(* commands, the teams, assessment, analysis and archetype REST routes,    *)
(* the collective archetype patterns, the case study mapper and            *)
(* concurrent team creation, as state machines.                            *)
(*                                                                         *)
(* Numbers that are floats in the program are kept exact: a quotient n/d   *)
(* is the pair <<n, d>> with d > 0 and is compared by cross               *)
(* multiplication.                                                         *)
(***************************************************************************)
EXTENDS Integers, Sequences, FiniteSets, TLC

VARIABLES
    scores,        \* TraitProfile.scores: trait name -> score
    call,          \* the operation invoked last, with its arguments
    ret,           \* what that operation returned or raised
    teams,         \* rows of table teams, in insertion order
    team_members,  \* rows of the association table team_members, in order
    user_profiles, \* table user_profiles: rows, user_id unique
    team_analyses, \* rows of table team_analyses, in insertion order
    accepted,      \* history: per team id, what the teams API acknowledged
    assessments,   \* rows of table assessments, in insertion order
    questions,     \* rows of table questions, in insertion order
    responses,     \* rows of table responses, in insertion order
    pending        \* concurrent create_team requests: position and answer

db == <<teams, team_members, user_profiles, team_analyses, accepted>>

\* The tables of the assessment routes.
adb == <<assessments, questions, responses>>

vars == <<scores, call, ret, db, adb, pending>>

NoCall == [op |-> "none"]
NoRet == [op |-> "none"]

\* Python's None
None == [none |-> TRUE]

\* Optional[str] that is not None
Some(str) == [some |-> str]

\* Rows of table users: seeded, no operation modelled here adds or removes
\* one.
MaxUsers == 4
Users == 1..MaxUsers

\* A database with no team, no profile, no analysis and no assessment.
EmptyDb ==
    /\ teams = <<>>
    /\ team_members = <<>>
    /\ user_profiles = <<>>
    /\ team_analyses = <<>>
    /\ accepted = <<>>
    /\ assessments = <<>>
    /\ questions = <<>>
    /\ responses = <<>>
    /\ pending = <<>>

----------------------------------------------------------------------------
(* Exact quotients *)

Rat(n, d) == <<n, d>>
RatEq(a, b) == a[1] * b[2] = b[1] * a[2]
RatLt(a, b) == a[1] * b[2] < b[1] * a[2]
RatLe(a, b) == a[1] * b[2] <= b[1] * a[2]
RatGt(a, b) == RatLt(b, a)

Abs(x) == IF x < 0 THEN -x ELSE x
Max(a, b) == IF a >= b THEN a ELSE b
Min(a, b) == IF a <= b THEN a ELSE b

----------------------------------------------------------------------------
(* TraitProfile (core/archetypes/traits.py) *)

\* The traits the archetype patterns mention.
TraitNames ==
    {"Extraversion", "Decisiveness", "Confidence",
     "Analytical Thinking", "Detail Orientation", "Logical Reasoning"}

\* Scores handed to add_score: both bounds, one inner value, and the nearest
\* values outside the range on either side.
ScoreInputs == {-1, 0, 85, 100, 101}

EmptyScores == [t \in {} |-> 0]

\* self.scores[trait_name] = score
SetScore(sc, trait_name, score) ==
    [t \in (DOMAIN sc) \cup {trait_name} |->
        IF t = trait_name THEN score ELSE sc[t]]

\* A range check that forgot the lower bound.
add_score_nolower(trait_name, score) ==
    /\ call' = [op |-> "add_score", trait_name |-> trait_name, score |-> score]
    /\ IF score > 100
         THEN /\ ret' = [op |-> "add_score", raised |-> "ValueError"]
              /\ scores' = scores
         ELSE /\ ret' = [op |-> "add_score", raised |-> "none"]
              /\ scores' = SetScore(scores, trait_name, score)
    /\ UNCHANGED <<pending, db, adb>>

\* TraitProfile.add_score
add_score(trait_name, score) ==
    /\ call' = [op |-> "add_score", trait_name |-> trait_name, score |-> score]
    /\ IF score < 0 \/ score > 100
         THEN /\ ret' = [op |-> "add_score", raised |-> "ValueError"]
              /\ scores' = scores
         ELSE /\ ret' = [op |-> "add_score", raised |-> "none"]
              /\ scores' = SetScore(scores, trait_name, score)
    /\ UNCHANGED <<pending, db, adb>>

\* TraitProfile.get_score: self.scores.get(trait_name) is None exactly for a
\* trait that has no score
ScoreIsNone(sc, trait_name) == trait_name \notin DOMAIN sc

get_score(sc, trait_name) == sc[trait_name]

\* TraitProfile.get_all_scores
get_all_scores(sc) == sc

----------------------------------------------------------------------------
(* ArchetypeClassifier (core/archetypes/classifier_logic.py) *)

\* self.archetype_patterns, in insertion order; each pattern in the order
\* of its items.
archetype_patterns ==
    << [archetype |-> "LEADER",
        pattern |-> << <<"Extraversion", 80>>,
                       <<"Decisiveness", 85>>,
                       <<"Confidence", 90>> >>],
       [archetype |-> "ANALYST",
        pattern |-> << <<"Analytical Thinking", 90>>,
                       <<"Detail Orientation", 85>>,
                       <<"Logical Reasoning", 88>> >>] >>

\* The loop of _calculate_pattern_match: <<total_diff, count>> after the
\* first i items of the pattern.
RECURSIVE PatternLoop(_, _, _)
PatternLoop(sc, pattern, i) ==
    IF i = 0 THEN <<0, 0>>
    ELSE LET acc == PatternLoop(sc, pattern, i - 1)
             trait_name == pattern[i][1]
             expected_value == pattern[i][2]
         IN IF ~ ScoreIsNone(sc, trait_name)
              THEN <<acc[1] + Abs(expected_value - get_score(sc, trait_name)),
                     acc[2] + 1>>
              ELSE acc

\* A match that charges an absent trait its whole expected value.
_calculate_pattern_match_penalised(sc, pattern) ==
    IF Len(pattern) = 0 THEN Rat(0, 1)
    ELSE LET acc == PatternLoop(sc, pattern, Len(pattern))
             absent == {i \in 1..Len(pattern) :
                           ScoreIsNone(sc, pattern[i][1])}
             total_diff == acc[1] + 100 * Cardinality(absent)
             count == Len(pattern)
         IN IF acc[2] = 0 THEN Rat(0, 1)
            ELSE Rat(Max(0, 100 * count - total_diff), count)

\* ArchetypeClassifier._calculate_pattern_match:
\* max(0, 100 - total_diff / count), or 0 when nothing was compared
_calculate_pattern_match(sc, pattern) ==
    IF Len(pattern) = 0 THEN Rat(0, 1)
    ELSE LET acc == PatternLoop(sc, pattern, Len(pattern))
             total_diff == acc[1]
             count == acc[2]
         IN IF count = 0 THEN Rat(0, 1)
            ELSE Rat(Max(0, 100 * count - total_diff), count)

\* The items in the reverse of the table order.
_calculate_archetype_scores_reversed(sc) ==
    [i \in 1..Len(archetype_patterns) |->
        <<archetype_patterns[Len(archetype_patterns) + 1 - i].archetype,
          _calculate_pattern_match(
              sc, archetype_patterns[Len(archetype_patterns) + 1 - i].pattern)>>]

\* ArchetypeClassifier._calculate_archetype_scores: (archetype, score)
\* items in the iteration order of the pattern table
_calculate_archetype_scores(sc) ==
    [i \in 1..Len(archetype_patterns) |->
        <<archetype_patterns[i].archetype,
          _calculate_pattern_match(sc, archetype_patterns[i].pattern)>>]

\* sorted(items, key=score, reverse=True): stable, so items with equal
\* scores keep their order. Insert puts x behind every item that is not
\* smaller than it.
RECURSIVE InsertDesc(_, _)
InsertDesc(x, s) ==
    IF s = <<>> THEN <<x>>
    ELSE IF RatLt(Head(s)[2], x[2]) THEN <<x>> \o s
    ELSE <<Head(s)>> \o InsertDesc(x, Tail(s))

RECURSIVE SortFirst(_, _)
SortFirst(items, n) ==
    IF n = 0 THEN <<>>
    ELSE InsertDesc(items[n], SortFirst(items, n - 1))

\* A sort that forgot reverse=True: ascending by score.
RECURSIVE InsertAsc(_, _)
InsertAsc(x, s) ==
    IF s = <<>> THEN <<x>>
    ELSE IF RatLt(x[2], Head(s)[2]) THEN <<x>> \o s
    ELSE <<Head(s)>> \o InsertAsc(x, Tail(s))

RECURSIVE SortFirstAsc(_, _)
SortFirstAsc(items, n) ==
    IF n = 0 THEN <<>>
    ELSE InsertAsc(items[n], SortFirstAsc(items, n - 1))

sorted_ascending(items) == SortFirstAsc(items, Len(items))

sorted_by_score_desc(items) == SortFirst(items, Len(items))

\* ClassificationResult.__post_init__
ConfidenceValid(confidence) ==
    ~ (RatLt(confidence, Rat(0, 1)) \/ RatGt(confidence, Rat(1, 1)))

\* ArchetypeClassifier.classify, as the value it returns
ClassifyResult(sc) ==
    LET sorted_archetypes == sorted_by_score_desc(_calculate_archetype_scores(sc))
        primary == sorted_archetypes[1][1]
        secondary == IF Len(sorted_archetypes) > 1
                       THEN sorted_archetypes[2][1] ELSE "None"
        top == sorted_archetypes[1][2]
        confidence == Rat(top[1], top[2] * 100)
    IN IF ConfidenceValid(confidence)
         THEN [op |-> "classify", raised |-> "none",
               primary_archetype |-> primary,
               secondary_archetype |-> secondary,
               confidence |-> confidence,
               trait_scores |-> get_all_scores(sc)]
         ELSE [op |-> "classify", raised |-> "ValueError"]

classify ==
    /\ call' = [op |-> "classify"]
    /\ ret' = ClassifyResult(scores)
    /\ UNCHANGED <<pending, scores, db, adb>>

InitTraits ==
    /\ scores = EmptyScores
    /\ call = NoCall
    /\ ret = NoRet
    /\ EmptyDb

NextTraits ==
    \/ \E t \in TraitNames, s \in ScoreInputs : add_score(t, s)
    \/ classify

SpecTraits == InitTraits /\ [][NextTraits]_vars

ScoresInRange == \A t \in DOMAIN scores : 0 <= scores[t] /\ scores[t] <= 100

AddScoreContract ==
    call'.op = "add_score" =>
        LET name == call'.trait_name
            s == call'.score
        IN IF 0 <= s /\ s <= 100
             THEN /\ ret'.raised = "none"
                  /\ name \in DOMAIN scores'
                  /\ scores'[name] = s
                  /\ \A t \in (DOMAIN scores') \ {name} :
                        t \in DOMAIN scores /\ scores'[t] = scores[t]
             ELSE /\ ret'.raised = "ValueError"
                  /\ scores' = scores

\* C1: add_score(name, s) stores s under name when 0 <= s <= 100, both
\* bounds included, and raises without changing the profile when s < 0 or
\* s > 100; hence every stored score always lies in [0,100].
C1_AddScoreValidates == []ScoresInRange /\ [][AddScoreContract]_vars

\* Both bounds have been stored and an out-of-range score was just refused.
C1_Witness ==
    /\ ret.op = "add_score" /\ ret.raised = "ValueError"
    /\ \E t \in DOMAIN scores : scores[t] = 0
    /\ \E t \in DOMAIN scores : scores[t] = 100

PatternOf(archetype) ==
    (CHOOSE i \in 1..Len(archetype_patterns) :
        archetype_patterns[i].archetype = archetype)

MatchScoreOf(sc, archetype) ==
    _calculate_pattern_match(sc, archetype_patterns[PatternOf(archetype)].pattern)

\* C2: classify always returns a result; its confidence is in [0,1] and the
\* match score of its primary archetype is at least that of its secondary
\* archetype.
C2_ClassifyRanked ==
    ret.op = "classify" =>
        /\ ret.raised = "none"
        /\ RatLe(Rat(0, 1), ret.confidence)
        /\ RatLe(ret.confidence, Rat(1, 1))
        /\ ret.secondary_archetype # "None" =>
              RatLe(MatchScoreOf(ret.trait_scores, ret.secondary_archetype),
                    MatchScoreOf(ret.trait_scores, ret.primary_archetype))

\* A profile for which the ranking differs from the table order, with a
\* confidence strictly inside the interval.
C2_Witness ==
    /\ ret.op = "classify" /\ ret.raised = "none"
    /\ ret.primary_archetype = "ANALYST"
    /\ ret.secondary_archetype = "LEADER"
    /\ RatLt(Rat(0, 1), ret.confidence)
    /\ RatLt(ret.confidence, Rat(1, 1))
    /\ RatLt(Rat(0, 1), MatchScoreOf(ret.trait_scores, "LEADER"))

----------------------------------------------------------------------------
(* JungianMapper (core/archetypes/jungian_mapper.py) *)

\* enum JungianFunction, by value
JungianFunction == {"Ti", "Te", "Fi", "Fe", "Si", "Se", "Ni", "Ne"}

\* enum MBTIType
MBTIType ==
    {"INTJ", "INTP", "ENTJ", "ENTP", "INFJ", "INFP", "ENFJ", "ENFP",
     "ISTJ", "ISFJ", "ESTJ", "ESFJ", "ISTP", "ISFP", "ESTP", "ESFP"}

\* Arguments that are no member of MBTIType.
UnknownTypes == {"XXXX", "intj", ""}

TypeInputs == MBTIType \cup UnknownTypes

\* JungianMapper._initialize_mappings: the "function_stack" entry per type
function_stack ==
    [t \in MBTIType |->
        CASE t = "INTJ" -> <<"Ni", "Te", "Fi", "Se">>
          [] t = "INTP" -> <<"Ti", "Ne", "Si", "Fe">>
          [] t = "ENTJ" -> <<"Te", "Ni", "Se", "Fi">>
          [] t = "ENTP" -> <<"Ne", "Ti", "Fe", "Si">>
          [] t = "INFJ" -> <<"Ni", "Fe", "Ti", "Se">>
          [] t = "INFP" -> <<"Fi", "Ne", "Si", "Te">>
          [] t = "ENFJ" -> <<"Fe", "Ni", "Se", "Ti">>
          [] t = "ENFP" -> <<"Ne", "Fi", "Te", "Si">>
          [] t = "ISTJ" -> <<"Si", "Te", "Fi", "Ne">>
          [] t = "ISFJ" -> <<"Si", "Fe", "Ti", "Ne">>
          [] t = "ESTJ" -> <<"Te", "Si", "Ne", "Fi">>
          [] t = "ESFJ" -> <<"Fe", "Si", "Ne", "Ti">>
          [] t = "ISTP" -> <<"Ti", "Se", "Ni", "Fe">>
          [] t = "ISFP" -> <<"Fi", "Se", "Ni", "Te">>
          [] t = "ESTP" -> <<"Se", "Ti", "Fe", "Ni">>
          [] t = "ESFP" -> <<"Se", "Fi", "Te", "Ni">>]

\* self.type_mappings.get(mbti_type) finds an entry
HasMapping(mbti_type) == mbti_type \in DOMAIN function_stack

\* A constructor call that passes functions[3] and functions[2] in the
\* wrong places.
get_jungian_profile_swapped(mbti_type) ==
    IF ~ HasMapping(mbti_type) THEN None
    ELSE LET functions == function_stack[mbti_type]
         IN [mbti_type |-> mbti_type,
             dominant_function |-> functions[1],
             auxiliary_function |-> functions[2],
             tertiary_function |-> functions[4],
             inferior_function |-> functions[3]]

\* JungianMapper.get_jungian_profile
get_jungian_profile(mbti_type) ==
    IF ~ HasMapping(mbti_type) THEN None
    ELSE LET functions == function_stack[mbti_type]
         IN [mbti_type |-> mbti_type,
             dominant_function |-> functions[1],
             auxiliary_function |-> functions[2],
             tertiary_function |-> functions[3],
             inferior_function |-> functions[4]]

\* JungianProfile.get_function_stack
get_function_stack(profile) ==
    <<profile.dominant_function, profile.auxiliary_function,
      profile.tertiary_function, profile.inferior_function>>

\* A compatibility check that looks at one direction only.
assess_type_compatibility_oneway(type1, type2) ==
    LET profile1 == get_jungian_profile(type1)
        profile2 == get_jungian_profile(type2)
    IN IF profile1 = None \/ profile2 = None
         THEN [compatible |-> FALSE, reason |-> "Unknown types"]
         ELSE LET complementary ==
                      profile1.auxiliary_function = profile2.dominant_function
              IN [compatible |-> complementary,
                  type1 |-> type1,
                  type2 |-> type2,
                  complementary_functions |-> complementary,
                  compatibility_score |-> IF complementary THEN 75 ELSE 50]

\* JungianMapper.assess_type_compatibility
assess_type_compatibility(type1, type2) ==
    LET profile1 == get_jungian_profile(type1)
        profile2 == get_jungian_profile(type2)
    IN IF profile1 = None \/ profile2 = None
         THEN [compatible |-> FALSE, reason |-> "Unknown types"]
         ELSE LET complementary ==
                      \/ profile1.auxiliary_function = profile2.dominant_function
                      \/ profile2.auxiliary_function = profile1.dominant_function
              IN [compatible |-> complementary,
                  type1 |-> type1,
                  type2 |-> type2,
                  complementary_functions |-> complementary,
                  compatibility_score |-> IF complementary THEN 75 ELSE 50]

CallGetJungianProfile(mbti_type) ==
    /\ call' = [op |-> "get_jungian_profile", mbti_type |-> mbti_type]
    /\ ret' = [op |-> "get_jungian_profile",
               value |-> get_jungian_profile(mbti_type)]
    /\ UNCHANGED <<pending, scores, db, adb>>

CallAssessTypeCompatibility(type1, type2) ==
    /\ call' = [op |-> "assess_type_compatibility",
                type1 |-> type1, type2 |-> type2]
    /\ ret' = [op |-> "assess_type_compatibility",
               value |-> assess_type_compatibility(type1, type2)]
    /\ UNCHANGED <<pending, scores, db, adb>>

InitJungian == InitTraits

NextJungian ==
    \/ \E t \in TypeInputs : CallGetJungianProfile(t)
    \/ \E t1 \in TypeInputs, t2 \in TypeInputs :
          CallAssessTypeCompatibility(t1, t2)

SpecJungian == InitJungian /\ [][NextJungian]_vars

\* C3: for each of the 16 MBTI codes get_jungian_profile returns a profile
\* whose function stack has exactly 4 entries, the table's entries in
\* dominant, auxiliary, tertiary, inferior order (Ni, Te, Fi, Se for INTJ);
\* for a code that is not recognized it returns None.
C3_FunctionStack ==
    ret.op = "get_jungian_profile" =>
        IF call.mbti_type \in MBTIType
          THEN /\ ret.value # None
               /\ ret.value.mbti_type = call.mbti_type
               /\ Len(get_function_stack(ret.value)) = 4
               /\ \A i \in 1..4 :
                     /\ get_function_stack(ret.value)[i] \in JungianFunction
                     /\ get_function_stack(ret.value)[i]
                           = function_stack[call.mbti_type][i]
               /\ call.mbti_type = "INTJ" =>
                     get_function_stack(ret.value) = <<"Ni", "Te", "Fi", "Se">>
          ELSE ret.value = None

\* The profile of a type whose tertiary and inferior functions differ from
\* INTJ's has been returned.
C3_Witness ==
    /\ ret.op = "get_jungian_profile"
    /\ call.mbti_type = "ESFP"
    /\ ret.value # None
    /\ get_function_stack(ret.value) = <<"Se", "Fi", "Te", "Ni">>

BothKnown == call.type1 \in MBTIType /\ call.type2 \in MBTIType

\* C4 as stated: the result returned for (A,B) equals the result returned
\* for (B,A), for all A and B.
C4_AsStated ==
    ret.op = "assess_type_compatibility" =>
        ret.value = assess_type_compatibility(call.type2, call.type1)

\* C4 amended: the compatible, complementary_functions and
\* compatibility_score entries of the result for (A,B) equal those of the
\* result for (B,A), while type1 and type2 echo the arguments in call order
\* and are therefore exchanged; when a type is unknown both results are the
\* same "Unknown types" answer.
C4_VerdictSymmetric ==
    ret.op = "assess_type_compatibility" =>
        LET ab == ret.value
            ba == assess_type_compatibility(call.type2, call.type1)
        IN IF BothKnown
             THEN /\ ab.compatible = ba.compatible
                  /\ ab.complementary_functions = ba.complementary_functions
                  /\ ab.compatibility_score = ba.compatibility_score
                  /\ ab.compatibility_score = (IF ab.compatible THEN 75 ELSE 50)
                  /\ ab.type1 = call.type1 /\ ab.type2 = call.type2
                  /\ ba.type1 = ab.type2 /\ ba.type2 = ab.type1
             ELSE ab = ba /\ ab.compatible = FALSE

\* Two different known types, compatible only through the second one's
\* auxiliary function.
C4_Witness ==
    /\ ret.op = "assess_type_compatibility"
    /\ call.type1 = "ENTJ" /\ call.type2 = "ISTJ"
    /\ ret.value.compatible = TRUE
    /\ ret.value.compatibility_score = 75

----------------------------------------------------------------------------
(* Team dynamics (api/routes/analysis.py, cli/main.py) *)

\* Largest member list handed to the team operations.
MaxMembers == 4

\* mbti_type strings of the submitted members; the route keeps the string
\* as submitted, so "intj" is a key of its own.
MemberTypeInputs == {"INTJ", "ENFP", "ISTP", "ESFJ", "intj"}

MemberLists == UNION {[1..n -> MemberTypeInputs] : n \in 0..MaxMembers}

EmptyDistribution == [t \in {} |-> 0]

\* The counting loop: mbti_distribution[t] = mbti_distribution.get(t, 0) + 1
\* for the first i members.
RECURSIVE mbti_distribution(_, _)
mbti_distribution(types, i) ==
    IF i = 0 THEN EmptyDistribution
    ELSE LET d == mbti_distribution(types, i - 1)
             t == types[i]
         IN [k \in (DOMAIN d) \cup {t} |->
               IF k = t
                 THEN (IF t \in DOMAIN d THEN d[t] ELSE 0) + 1
                 ELSE d[k]]

\* A ratio that divides by the number of distinct types instead.
diversity_score_inverted(distribution, n_members) ==
    IF n_members # 0
      THEN Rat(n_members, Cardinality(DOMAIN distribution))
      ELSE Rat(0, 1)

\* len(mbti_distribution) / len(members) if members else 0
diversity_score(distribution, n_members) ==
    IF n_members # 0
      THEN Rat(Cardinality(DOMAIN distribution), n_members)
      ELSE Rat(0, 1)

\* _assess_team_dynamics(members, mapper), members given by their mbti_type
_assess_team_dynamics(members) ==
    LET distribution == mbti_distribution(members, Len(members))
        score == diversity_score(distribution, Len(members))
    IN [mbti_distribution |-> distribution,
        diversity_score |-> score,
        balance |-> IF RatGt(score, Rat(6, 10))
                      THEN "balanced" ELSE "homogeneous"]

\* The request is drawn by the initial state; the call answers it.
CallAssessTeamDynamics ==
    /\ call.op = "request"
    /\ call' = [op |-> "_assess_team_dynamics", members |-> call.members]
    /\ ret' = [op |-> "_assess_team_dynamics",
               value |-> _assess_team_dynamics(call.members)]
    /\ UNCHANGED <<pending, scores, db, adb>>

InitDynamics ==
    /\ call \in {[op |-> "request", members |-> m] : m \in MemberLists}
    /\ ret = NoRet
    /\ scores = EmptyScores
    /\ EmptyDb

NextDynamics == CallAssessTeamDynamics

SpecDynamics == InitDynamics /\ [][NextDynamics]_vars

DistinctTypes(members) == {members[i] : i \in 1..Len(members)}

\* C5: the diversity score is the number of distinct MBTI types among the
\* members divided by the number of members, and 0 for an empty team; 4
\* members of 4 distinct types give 1.0, 4 members of one type give 0.25.
C5_DiversityScore ==
    ret.op = "_assess_team_dynamics" =>
        LET members == call.members
            score == ret.value.diversity_score
            distinct == Cardinality(DistinctTypes(members))
        IN /\ score[2] > 0
           /\ IF Len(members) = 0
                THEN RatEq(score, Rat(0, 1))
                ELSE RatEq(score, Rat(distinct, Len(members)))
           /\ (Len(members) = 4 /\ distinct = 4) => RatEq(score, Rat(100, 100))
           /\ (Len(members) = 4 /\ distinct = 1) => RatEq(score, Rat(25, 100))

\* Four members of one type: the score is a quarter.
C5_Witness ==
    /\ ret.op = "_assess_team_dynamics"
    /\ call.members = <<"ENFP", "ENFP", "ENFP", "ENFP">>
    /\ RatEq(ret.value.diversity_score, Rat(1, 4))

----------------------------------------------------------------------------
(* FreudianAnalyzer (core/psychology/freudian.py) *)

\* Longest behaviour list handed to identify_defenses; more than 5 matching
\* behaviours are needed to reach the cap of the frequency.
MaxBehaviors == 6

\* Observed behaviours: the spec's example, one that matches two mechanisms
\* and only when case is ignored, and one that matches none.
BehaviorInputs ==
    {"justifies behavior",
     "Excuses Actions, then IGNORES reality",
     "went for a walk"}

BehaviorLists == UNION {[1..n -> BehaviorInputs] : n \in 0..MaxBehaviors}

\* str.lower() on one ASCII character
LowerChar(c) ==
    CASE c = "A" -> "a" [] c = "B" -> "b" [] c = "C" -> "c" [] c = "D" -> "d"
      [] c = "E" -> "e" [] c = "F" -> "f" [] c = "G" -> "g" [] c = "H" -> "h"
      [] c = "I" -> "i" [] c = "J" -> "j" [] c = "K" -> "k" [] c = "L" -> "l"
      [] c = "M" -> "m" [] c = "N" -> "n" [] c = "O" -> "o" [] c = "P" -> "p"
      [] c = "Q" -> "q" [] c = "R" -> "r" [] c = "S" -> "s" [] c = "T" -> "t"
      [] c = "U" -> "u" [] c = "V" -> "v" [] c = "W" -> "w" [] c = "X" -> "x"
      [] c = "Y" -> "y" [] c = "Z" -> "z" [] OTHER -> c

CharAt(str, i) == SubSeq(str, i, i)

\* str.lower()
RECURSIVE LowerFirst(_, _)
LowerFirst(str, n) ==
    IF n = 0 THEN ""
    ELSE LowerFirst(str, n - 1) \o LowerChar(CharAt(str, n))

lower(str) == LowerFirst(str, Len(str))

\* Python's  sub in str
Contains(sub, str) ==
    \E i \in 1..(Len(str) - Len(sub) + 1) :
        SubSeq(str, i, i + Len(sub) - 1) = sub

\* enum DefenseMechanism, by member name
DefenseMechanism ==
    {"REPRESSION", "DENIAL", "PROJECTION", "DISPLACEMENT", "RATIONALIZATION",
     "REACTION_FORMATION", "SUBLIMATION", "REGRESSION", "INTELLECTUALIZATION",
     "HUMOR"}

\* FreudianAnalyzer._load_indicators, in the order of the dict
mechanism_indicators ==
    << [mechanism |-> "DENIAL",
        indicators |-> <<"refuses to acknowledge", "ignores reality",
                         "dismisses evidence">>],
       [mechanism |-> "PROJECTION",
        indicators |-> <<"attributes own feelings to others",
                         "accuses others of own faults", "externalizes blame">>],
       [mechanism |-> "RATIONALIZATION",
        indicators |-> <<"justifies behavior", "creates logical explanations",
                         "excuses actions">>],
       [mechanism |-> "SUBLIMATION",
        indicators |-> <<"channels energy productively",
                         "transforms impulses creatively",
                         "redirects to socially acceptable">>] >>

\* self.adaptive_mechanisms
adaptive_mechanisms == {"SUBLIMATION", "HUMOR", "INTELLECTUALIZATION"}

\* A match that forgot to lower the behaviour.
BehaviorMatchesCaseSensitive(b, indicators) ==
    \E k \in 1..Len(indicators) : Contains(lower(indicators[k]), b)

\* any(ind.lower() in b.lower() for ind in indicators)
BehaviorMatches(b, indicators) ==
    \E k \in 1..Len(indicators) : Contains(lower(indicators[k]), lower(b))

\* [b for b in behaviors if ...], order kept
RECURSIVE matching_behaviors(_, _, _)
matching_behaviors(behaviors, indicators, n) ==
    IF n = 0 THEN <<>>
    ELSE LET rest == matching_behaviors(behaviors, indicators, n - 1)
         IN IF BehaviorMatches(behaviors[n], indicators)
              THEN Append(rest, behaviors[n]) ELSE rest

\* FreudianAnalyzer._assess_adaptiveness
_assess_adaptiveness(mechanism) ==
    IF mechanism \in adaptive_mechanisms THEN Rat(8, 10)
    ELSE IF mechanism \in {"DENIAL", "PROJECTION"} THEN Rat(3, 10)
    ELSE Rat(5, 10)

RatMin(a, b) == IF RatLe(a, b) THEN a ELSE b

\* The loop over mechanism_indicators: the profiles appended for the first
\* n mechanisms, each paired with its sort key.
RECURSIVE DefenseProfiles(_, _)
DefenseProfiles(behaviors, n) ==
    IF n = 0 THEN <<>>
    ELSE LET rest == DefenseProfiles(behaviors, n - 1)
             entry == mechanism_indicators[n]
             matching == matching_behaviors(behaviors, entry.indicators,
                                            Len(behaviors))
             frequency == RatMin(Rat(1, 1), Rat(Len(matching), 5))
             profile == [mechanism |-> entry.mechanism,
                         frequency |-> frequency,
                         adaptiveness |-> _assess_adaptiveness(entry.mechanism),
                         contexts |-> SubSeq(matching, 1, Min(3, Len(matching)))]
         IN IF Len(matching) > 0
              THEN Append(rest, <<profile, frequency>>) ELSE rest

\* FreudianAnalyzer.identify_defenses
identify_defenses(behaviors) ==
    LET profiles == DefenseProfiles(behaviors, Len(mechanism_indicators))
        ordered == sorted_by_score_desc(profiles)
    IN [i \in 1..Len(ordered) |-> ordered[i][1]]

CallIdentifyDefenses ==
    /\ call.op = "request"
    /\ call' = [op |-> "identify_defenses", behaviors |-> call.behaviors]
    /\ ret' = [op |-> "identify_defenses",
               value |-> identify_defenses(call.behaviors)]
    /\ UNCHANGED <<pending, scores, db, adb>>

InitFreudian ==
    /\ call \in {[op |-> "request", behaviors |-> b] : b \in BehaviorLists}
    /\ ret = NoRet
    /\ scores = EmptyScores
    /\ EmptyDb

NextFreudian == CallIdentifyDefenses

SpecFreudian == InitFreudian /\ [][NextFreudian]_vars

\* phrase occurs in b at position i when case is ignored, character by
\* character
OccursAt(phrase, b, i) ==
    /\ i + Len(phrase) - 1 <= Len(b)
    /\ \A j \in 1..Len(phrase) :
          LowerChar(CharAt(b, i + j - 1)) = LowerChar(CharAt(phrase, j))

IndicatorsOf(mechanism) ==
    LET found == {n \in 1..Len(mechanism_indicators) :
                     mechanism_indicators[n].mechanism = mechanism}
    IN IF found = {} THEN <<>>
       ELSE mechanism_indicators[CHOOSE n \in found : TRUE].indicators

\* The positions of the behaviours that contain an indicator phrase of the
\* mechanism.
MatchingPositions(behaviors, mechanism) ==
    {n \in 1..Len(behaviors) :
        \E k \in 1..Len(IndicatorsOf(mechanism)) :
            \E i \in 1..Len(behaviors[n]) :
                OccursAt(IndicatorsOf(mechanism)[k], behaviors[n], i)}

\* C6: identify_defenses returns one profile for each mechanism that has a
\* behaviour containing, case ignored, one of its indicator phrases, with
\* frequency min(1, matching behaviours / 5); no behaviours give no
\* profile, and "justifies behavior" alone gives RATIONALIZATION with
\* frequency 0.2.
C6_IdentifyDefenses ==
    ret.op = "identify_defenses" =>
        LET behaviors == call.behaviors
            profiles == ret.value
        IN /\ \A m \in DefenseMechanism :
                LET count == Cardinality(MatchingPositions(behaviors, m))
                    of_m == {i \in 1..Len(profiles) : profiles[i].mechanism = m}
                IN /\ Cardinality(of_m) = (IF count > 0 THEN 1 ELSE 0)
                   /\ \A i \in of_m :
                         IF count >= 5
                           THEN RatEq(profiles[i].frequency, Rat(1, 1))
                           ELSE RatEq(profiles[i].frequency, Rat(count, 5))
           /\ \A i \in 1..Len(profiles) : profiles[i].mechanism \in DefenseMechanism
           /\ behaviors = <<>> => profiles = <<>>
           /\ behaviors = <<"justifies behavior">> =>
                 /\ Len(profiles) = 1
                 /\ profiles[1].mechanism = "RATIONALIZATION"
                 /\ RatEq(profiles[1].frequency, Rat(2, 10))

\* Six behaviours that all match RATIONALIZATION, the first of them only
\* when case is ignored and also matching DENIAL: the frequency is capped.
C6_Witness ==
    /\ ret.op = "identify_defenses"
    /\ Len(call.behaviors) = 6
    /\ call.behaviors[1] = "Excuses Actions, then IGNORES reality"
    /\ \A i \in 2..6 : call.behaviors[i] = "justifies behavior"
    /\ Len(ret.value) = 2
    /\ ret.value[1].mechanism = "RATIONALIZATION"
    /\ RatEq(ret.value[1].frequency, Rat(1, 1))
    /\ ret.value[2].mechanism = "DENIAL"
    /\ RatEq(ret.value[2].frequency, Rat(1, 5))

----------------------------------------------------------------------------
(* CLI recommend (cli/main.py) *)

DEFAULT_MBTI_TYPE == "INTJ"

EmptyDict == [k \in {} |-> ""]

\* Rows of user_profiles as the seed data and assess leave them: no row, a
\* row with only jungian_type, a row with only trait_scores["mbti_type"],
\* and a row with both.
ProfileSeeds ==
    {None,
     [jungian_type |-> "ENFP", trait_scores |-> EmptyDict],
     [jungian_type |-> "", trait_scores |-> [mbti_type |-> "ISTP"]],
     [jungian_type |-> "INTJ", trait_scores |-> [mbti_type |-> "INTJ"]]}

\* get_user_mbti_type(profile, warn_if_default)
get_user_mbti_type(profile) ==
    IF profile # None /\ profile.jungian_type # ""
      THEN profile.jungian_type
    ELSE IF /\ profile # None
            /\ profile.trait_scores # EmptyDict
            /\ "mbti_type" \in DOMAIN profile.trait_scores
      THEN profile.trait_scores["mbti_type"]
    ELSE DEFAULT_MBTI_TYPE

\* UserProfile(user_id=..., jungian_type=..., trait_scores=...) with primary
\* key id.
UserProfile(id, user_id, jungian_type, trait_scores) ==
    [id |-> id, user_id |-> user_id, jungian_type |-> jungian_type,
     trait_scores |-> trait_scores]

\* The table holding the row seeds[u] of every user u <= n that has one.
RECURSIVE SeedRows(_, _)
SeedRows(seeds, n) ==
    IF n = 0 THEN <<>>
    ELSE LET rows == SeedRows(seeds, n - 1)
         IN  IF seeds[n] = None THEN rows
             ELSE Append(rows, UserProfile(Len(rows) + 1, n,
                                           seeds[n].jungian_type,
                                           seeds[n].trait_scores))

ProfileIndex(user_id) ==
    {i \in 1..Len(user_profiles) : user_profiles[i].user_id = user_id}

\* db.query(UserProfile).filter(UserProfile.user_id == user_id).first()
ProfileOf(user_id) ==
    IF ProfileIndex(user_id) = {} THEN None
    ELSE user_profiles[CHOOSE i \in ProfileIndex(user_id) :
                          \A j \in ProfileIndex(user_id) : i <= j]

\* get_db_session(): the block's exception (raised) is answered with a
\* rollback and raised again; otherwise the session commits, and a commit
\* that fails (committed = FALSE) is answered with a rollback and exit
\* code 1.  The session is closed in every case.
get_db_session_norollback(raised, committed) ==
    IF raised
      THEN [committed |-> FALSE, rolled_back |-> FALSE, closed |-> TRUE]
    ELSE IF ~ committed
      THEN [committed |-> FALSE, rolled_back |-> TRUE, closed |-> TRUE]
    ELSE [committed |-> TRUE, rolled_back |-> FALSE, closed |-> TRUE]

get_db_session(raised, committed) ==
    IF raised \/ ~ committed
      THEN [committed |-> FALSE, rolled_back |-> TRUE, closed |-> TRUE]
    ELSE [committed |-> TRUE, rolled_back |-> FALSE, closed |-> TRUE]

\* db.query(Team).filter(Team.id == team_id).first()
TeamById(team_id) ==
    LET found == {i \in 1..Len(teams) : teams[i].id = team_id}
    IN IF found = {} THEN None
       ELSE teams[CHOOSE i \in found : \A j \in found : i <= j]

\* team.members: the user ids that team_members relates to the team
RECURSIVE MembersFirst(_, _)
MembersFirst(team_id, n) ==
    IF n = 0 THEN <<>>
    ELSE IF team_members[n][1] = team_id
      THEN Append(MembersFirst(team_id, n - 1), team_members[n][2])
      ELSE MembersFirst(team_id, n - 1)

MembersOf(team_id) == MembersFirst(team_id, Len(team_members))

\* The keys of mbti_distribution in insertion order.
RECURSIVE DistributionKeys(_, _)
DistributionKeys(types, n) ==
    IF n = 0 THEN <<>>
    ELSE LET keys == DistributionKeys(types, n - 1)
         IN IF \E i \in 1..Len(keys) : keys[i] = types[n]
              THEN keys ELSE Append(keys, types[n])

\* sorted(mbti_distribution.items(), key=lambda x: x[1], reverse=True)
type_counts(types) ==
    LET keys == DistributionKeys(types, Len(types))
        distribution == mbti_distribution(types, Len(types))
    IN sorted_by_score_desc(
           [i \in 1..Len(keys) |-> <<keys[i], Rat(distribution[keys[i]], 1)>>])

\* sum(1 for m in member_data if m["mbti_type"][index] == letter), with
\* Python's index counted from 0
CountLetter(types, index, letter) ==
    Cardinality({i \in 1..Len(types) : CharAt(types[i], index + 1) = letter})

\* rec_count += 1; recommendations.append(rec); typer.echo(rec)
Emit(st, title, detail) ==
    [st EXCEPT !.rec_count = @ + 1,
               !.recommendations =
                   Append(@, [number |-> st.rec_count + 1,
                              title |-> title, detail |-> detail])]

\* Entering the block of a rule: its conditions are evaluated.
Evaluate(st, rule) ==
    [st EXCEPT !.evaluated =
        Append(@, [rule |-> rule, rec_count |-> st.rec_count])]

\* Lines 514-532
DiversityRule(st0, score) ==
    LET st == Evaluate(st0, "diversity")
    IN IF RatGt(score, Rat(8, 10))
         THEN Emit(st, "Leverage Diversity", score)
       ELSE IF RatLt(score, Rat(4, 10))
         THEN Emit(st, "Increase Diversity", score)
       ELSE st

\* Lines 539-560
ThinkingFeelingRule(st0, types, max_recommendations) ==
    LET st == Evaluate(st0, "thinking_feeling")
        thinking_count == CountLetter(types, 2, "T")
        feeling_count == Len(types) - thinking_count
    IN IF /\ Abs(thinking_count - feeling_count) <= 1
          /\ st.rec_count < max_recommendations
         THEN Emit(st, "Balance Logic and Empathy",
                   <<thinking_count, feeling_count>>)
       ELSE IF /\ thinking_count > feeling_count + 2
               /\ st.rec_count < max_recommendations
         THEN Emit(st, "Consider Emotional Perspectives",
                   <<thinking_count, feeling_count>>)
       ELSE st

\* Lines 567-588
IntuitionSensingRule(st0, types, max_recommendations) ==
    LET st == Evaluate(st0, "intuition_sensing")
        intuitive_count == CountLetter(types, 1, "N")
        sensing_count == Len(types) - intuitive_count
    IN IF /\ intuitive_count > sensing_count + 2
          /\ st.rec_count < max_recommendations
         THEN Emit(st, "Ground Ideas in Reality",
                   <<intuitive_count, sensing_count>>)
       ELSE IF /\ sensing_count > intuitive_count + 2
               /\ st.rec_count < max_recommendations
         THEN Emit(st, "Encourage Innovation",
                   <<sensing_count, intuitive_count>>)
       ELSE st

\* Lines 595-607
ClusteringRule(st0, types, max_recommendations) ==
    LET st == Evaluate(st0, "clustering")
        counts == type_counts(types)
    IN IF /\ RatGt(counts[1][2], Rat(1, 1))
          /\ st.rec_count < max_recommendations
         THEN Emit(st, "Manage Type Clustering", counts[1][1])
       ELSE st

\* Lines 614-623
GeneralRule(st0, max_recommendations) ==
    LET st == Evaluate(st0, "general")
    IN IF st.rec_count < max_recommendations
         THEN Emit(st, "Foster Psychological Safety", <<>>)
       ELSE st

\* Lines 511-626: the cascade with its early returns
Recommendations(types, max_recommendations) ==
    LET score == diversity_score(mbti_distribution(types, Len(types)),
                                 Len(types))
        start == [rec_count |-> 0, recommendations |-> <<>>,
                  evaluated |-> <<>>]
        s1 == DiversityRule(start, score)
        s2 == ThinkingFeelingRule(s1, types, max_recommendations)
        s3 == IntuitionSensingRule(s2, types, max_recommendations)
        s4 == ClusteringRule(s3, types, max_recommendations)
        s5 == GeneralRule(s4, max_recommendations)
    IN IF s1.rec_count >= max_recommendations THEN s1
       ELSE IF s2.rec_count >= max_recommendations THEN s2
       ELSE IF s3.rec_count >= max_recommendations THEN s3
       ELSE IF s4.rec_count >= max_recommendations THEN s4
       ELSE s5

\* recommend(team_id, max_recommendations): the command reads the database
\* and commits nothing new.
recommend(team_id, max_recommendations) ==
    /\ call' = [op |-> "recommend", team_id |-> team_id,
                max_recommendations |-> max_recommendations]
    /\ LET team == TeamById(team_id)
           members == MembersOf(team_id)
           types == [i \in 1..Len(members) |->
                        get_user_mbti_type(ProfileOf(members[i]))]
       IN IF team = None
            THEN ret' = [op |-> "recommend", exit_code |-> 1,
                         error |-> "team not found",
                         session |-> get_db_session(TRUE, TRUE)]
          ELSE IF Len(members) = 0
            THEN ret' = [op |-> "recommend", exit_code |-> 1,
                         error |-> "team has no members",
                         session |-> get_db_session(TRUE, TRUE)]
          ELSE LET out == Recommendations(types, max_recommendations)
               IN ret' = [op |-> "recommend", exit_code |-> 0,
                          types |-> types,
                          rec_count |-> out.rec_count,
                          recommendations |-> out.recommendations,
                          evaluated |-> out.evaluated,
                          session |-> get_db_session(FALSE, TRUE)]
    /\ UNCHANGED <<pending, scores, db, adb>>

\* Values of --max-recommendations: any integer is accepted; 5 is the
\* default and no team draws more than 5 recommendations.
MaxBudget == 6
BudgetInputs == -1..MaxBudget

\* The seeded database: team 1 with the first k users as members, and any
\* profile rows.
InitCli ==
    /\ scores = EmptyScores
    /\ call = NoCall
    /\ ret = NoRet
    /\ teams = <<[id |-> 1, name |-> "Alpha", description |-> Some("seeded")]>>
    /\ \E k \in 0..MaxUsers : team_members = [i \in 1..k |-> <<1, i>>]
    /\ \E seeds \in [Users -> ProfileSeeds] :
          user_profiles = SeedRows(seeds, MaxUsers)
    /\ team_analyses = <<>>
    /\ accepted = <<>>
    /\ assessments = <<>>
    /\ questions = <<>>
    /\ responses = <<>>
    /\ pending = <<>>

NextCli ==
    \E team_id \in 1..2, max_recommendations \in BudgetInputs :
        recommend(team_id, max_recommendations)

SpecCli == InitCli /\ [][NextCli]_vars

RecommendRan == ret.op = "recommend" /\ ret.exit_code = 0

\* C7: for every team and every max_recommendations the recommend command
\* emits at most max_recommendations recommendations and evaluates no
\* further rule once that cap is reached.
C7_CappedAtMax ==
    RecommendRan =>
        /\ Len(ret.recommendations) <= call.max_recommendations
        /\ \A i \in 1..Len(ret.evaluated) :
              ret.evaluated[i].rec_count < call.max_recommendations

\* What does hold: the cap is kept for every budget of at least 1.
RecommendCappedForPositiveBudget ==
    (RecommendRan /\ call.max_recommendations >= 1) =>
        /\ Len(ret.recommendations) <= call.max_recommendations
        /\ \A i \in 1..Len(ret.evaluated) :
              ret.evaluated[i].rec_count < call.max_recommendations

\* The recommendations the same team draws from a budget no rule exhausts.
Unlimited(types) == Recommendations(types, 5).recommendations

FirstOf(seq, m) == SubSeq(seq, 1, Min(Max(m, 0), Len(seq)))

RuleOrder ==
    <<"diversity", "thinking_feeling", "intuition_sensing", "clustering",
      "general">>

\* C8: the rules run in the order diversity, thinking/feeling,
\* intuition/sensing, clustering, general, each adding at most one
\* recommendation, and the recommendations emitted with budget m are
\* exactly the first m, numbered 1..m, of those emitted with an unlimited
\* budget.
C8_PrefixOfUnlimited ==
    RecommendRan =>
        /\ \A i \in 1..Len(ret.evaluated) : ret.evaluated[i].rule = RuleOrder[i]
        /\ \A i \in 1..Len(ret.evaluated) :
              ret.evaluated[i].rec_count <= i - 1
        /\ \A i \in 1..Len(ret.recommendations) :
              ret.recommendations[i].number = i
        /\ ret.recommendations =
              FirstOf(Unlimited(ret.types), call.max_recommendations)

\* What does hold: the prefix property for every budget of at least 1.
RecommendPrefixForPositiveBudget ==
    (RecommendRan /\ call.max_recommendations >= 1) =>
        ret.recommendations =
            FirstOf(Unlimited(ret.types), call.max_recommendations)

----------------------------------------------------------------------------
(* Teams API (api/routes/teams.py, api/schemas/teams.py) *)

\* Request bodies of POST /teams/: two names that pass validation and the
\* empty one, which TeamBase rejects (min_length=1); description absent,
\* empty or given.
NameInputs == {"Alpha", "Beta", ""}
DescriptionInputs == {None, Some(""), Some("First team")}

\* Path parameters: every id a team can get here, and one more.
TeamIdInputs == 1..Cardinality(NameInputs)
ApiUserInputs == {1, 2, MaxUsers + 1}

\* db.query(Team).filter(Team.name == name).first()
TeamByName(name) ==
    LET found == {i \in 1..Len(teams) : teams[i].name = name}
    IN IF found = {} THEN None
       ELSE teams[CHOOSE i \in found : \A j \in found : i <= j]

\* TeamResponse built from a Team row (from_attributes)
TeamResponse(team) ==
    [id |-> team.id, name |-> team.name, description |-> team.description,
     members |-> MembersOf(team.id)]

\* TeamBase validation of the request body
TeamCreateValid(name) == Len(name) >= 1 /\ Len(name) <= 255

\* A handler that skips the lookup of the name.
create_team_nocheck(name, description) ==
    /\ call' = [op |-> "create_team", name |-> name,
                description |-> description]
    /\ IF ~ TeamCreateValid(name)
         THEN /\ ret' = [op |-> "create_team", status |-> 422]
              /\ UNCHANGED db
         ELSE LET db_team == [id |-> Len(teams) + 1, name |-> name,
                              description |-> description]
              IN /\ teams' = Append(teams, db_team)
                 /\ accepted' = Append(accepted,
                        [name |-> name, description |-> description,
                         members |-> {}])
                 /\ ret' = [op |-> "create_team", status |-> 201,
                            body |-> [id |-> db_team.id, name |-> name,
                                      description |-> description,
                                      members |-> <<>>]]
                 /\ UNCHANGED <<team_members, user_profiles, team_analyses>>
    /\ UNCHANGED <<pending, scores, adb>>

\* A handler that builds the row without the description.
create_team_nodescription(name, description) ==
    /\ call' = [op |-> "create_team", name |-> name,
                description |-> description]
    /\ IF ~ TeamCreateValid(name)
         THEN /\ ret' = [op |-> "create_team", status |-> 422]
              /\ UNCHANGED db
       ELSE IF TeamByName(name) # None
         THEN /\ ret' = [op |-> "create_team", status |-> 400]
              /\ UNCHANGED db
         ELSE LET db_team == [id |-> Len(teams) + 1, name |-> name,
                              description |-> None]
              IN /\ teams' = Append(teams, db_team)
                 /\ accepted' = Append(accepted,
                        [name |-> name, description |-> description,
                         members |-> {}])
                 /\ ret' = [op |-> "create_team", status |-> 201,
                            body |-> [id |-> db_team.id, name |-> name,
                                      description |-> None,
                                      members |-> <<>>]]
                 /\ UNCHANGED <<team_members, user_profiles, team_analyses>>
    /\ UNCHANGED <<pending, scores, adb>>

\* POST /teams/ : create_team. The row gets the next id of the table; the
\* table has no constraint that could make the commit fail, so the
\* IntegrityError branch is never taken.
create_team(name, description) ==
    /\ call' = [op |-> "create_team", name |-> name,
                description |-> description]
    /\ IF ~ TeamCreateValid(name)
         THEN /\ ret' = [op |-> "create_team", status |-> 422]
              /\ UNCHANGED db
       ELSE IF TeamByName(name) # None
         THEN /\ ret' = [op |-> "create_team", status |-> 400]
              /\ UNCHANGED db
         ELSE LET db_team == [id |-> Len(teams) + 1, name |-> name,
                              description |-> description]
              IN /\ teams' = Append(teams, db_team)
                 /\ accepted' = Append(accepted,
                        [name |-> name, description |-> description,
                         members |-> {}])
                 /\ ret' = [op |-> "create_team", status |-> 201,
                            body |-> [id |-> db_team.id, name |-> name,
                                      description |-> description,
                                      members |-> <<>>]]
                 /\ UNCHANGED <<team_members, user_profiles, team_analyses>>
    /\ UNCHANGED <<pending, scores, adb>>

\* GET /teams/{team_id} : get_team
get_team(team_id) ==
    /\ call' = [op |-> "get_team", team_id |-> team_id]
    /\ LET team == TeamById(team_id)
       IN IF team = None
            THEN ret' = [op |-> "get_team", status |-> 404]
            ELSE ret' = [op |-> "get_team", status |-> 200,
                         body |-> TeamResponse(team)]
    /\ UNCHANGED <<pending, scores, db, adb>>

\* user in team.members
IsMember(team_id, user_id) ==
    \E i \in 1..Len(team_members) : team_members[i] = <<team_id, user_id>>

\* A handler that skips the membership test.
add_team_member_nomembertest(team_id, user_id) ==
    /\ call' = [op |-> "add_team_member", team_id |-> team_id,
                user_id |-> user_id]
    /\ IF TeamById(team_id) = None
         THEN /\ ret' = [op |-> "add_team_member", status |-> 404,
                         detail |-> "team"]
              /\ UNCHANGED db
       ELSE IF user_id \notin Users
         THEN /\ ret' = [op |-> "add_team_member", status |-> 404,
                         detail |-> "user"]
              /\ UNCHANGED db
         ELSE /\ team_members' = Append(team_members, <<team_id, user_id>>)
              /\ accepted' = [accepted EXCEPT ![team_id].members =
                                 @ \cup {user_id}]
              /\ ret' = [op |-> "add_team_member", status |-> 200,
                         body |-> [id |-> team_id,
                                   members |-> Append(MembersOf(team_id),
                                                      user_id)]]
              /\ UNCHANGED <<teams, user_profiles, team_analyses>>
    /\ UNCHANGED <<pending, scores, adb>>

\* POST /teams/{team_id}/members/{user_id} : add_team_member
add_team_member(team_id, user_id) ==
    /\ call' = [op |-> "add_team_member", team_id |-> team_id,
                user_id |-> user_id]
    /\ IF TeamById(team_id) = None
         THEN /\ ret' = [op |-> "add_team_member", status |-> 404,
                         detail |-> "team"]
              /\ UNCHANGED db
       ELSE IF user_id \notin Users
         THEN /\ ret' = [op |-> "add_team_member", status |-> 404,
                         detail |-> "user"]
              /\ UNCHANGED db
       ELSE IF IsMember(team_id, user_id)
         THEN /\ ret' = [op |-> "add_team_member", status |-> 400,
                         detail |-> "already a member"]
              /\ UNCHANGED db
         ELSE /\ team_members' = Append(team_members, <<team_id, user_id>>)
              /\ accepted' = [accepted EXCEPT ![team_id].members =
                                 @ \cup {user_id}]
              /\ ret' = [op |-> "add_team_member", status |-> 200,
                         body |-> [id |-> team_id,
                                   members |-> Append(MembersOf(team_id),
                                                      user_id)]]
              /\ UNCHANGED <<teams, user_profiles, team_analyses>>
    /\ UNCHANGED <<pending, scores, adb>>

InitTeams ==
    /\ scores = EmptyScores
    /\ call = NoCall
    /\ ret = NoRet
    /\ EmptyDb

NextTeams ==
    \/ \E name \in NameInputs, description \in DescriptionInputs :
          create_team(name, description)
    \/ \E team_id \in TeamIdInputs : get_team(team_id)
    \/ \E team_id \in TeamIdInputs, user_id \in ApiUserInputs :
          add_team_member(team_id, user_id)

SpecTeams == InitTeams /\ [][NextTeams]_vars

SeqToSet(seq) == {seq[i] : i \in 1..Len(seq)}

\* C9: once a team was created through POST /teams/ and members were added
\* through POST /teams/{id}/members/{user_id}, GET /teams/{id} returns the
\* submitted name and description and exactly the members added so far.
C9_RoundTrip ==
    ret.op = "get_team" =>
        IF call.team_id \in 1..Len(accepted)
          THEN /\ ret.status = 200
               /\ ret.body.id = call.team_id
               /\ ret.body.name = accepted[call.team_id].name
               /\ ret.body.description = accepted[call.team_id].description
               /\ SeqToSet(ret.body.members) = accepted[call.team_id].members
               /\ Len(ret.body.members)
                     = Cardinality(accepted[call.team_id].members)
          ELSE ret.status = 404

\* The second team, created with a description and given two members after
\* the first team was given one, is read back.
C9_Witness ==
    /\ ret.op = "get_team" /\ ret.status = 200
    /\ call.team_id = 2
    /\ ret.body.description = Some("First team")
    /\ SeqToSet(ret.body.members) = {1, 2}
    /\ Len(MembersOf(1)) = 1

NoTwoTeamsShareAName ==
    \A i, j \in 1..Len(teams) : teams[i].name = teams[j].name => i = j

NameTaken(name) == \E i \in 1..Len(teams) : teams[i].name = name

DuplicateNameRefused ==
    (call'.op = "create_team" /\ NameTaken(call'.name)) =>
        /\ ret'.status = 400
        /\ UNCHANGED db

\* C10: create_team answers 400 and stores nothing when a team with the
\* requested name exists, so no two stored teams ever have the same name.
C10_UniqueNames == []NoTwoTeamsShareAName /\ [][DuplicateNameRefused]_vars

\* A second request for a stored name, with another description, was
\* refused while two teams are stored.
C10_Witness ==
    /\ ret.op = "create_team" /\ ret.status = 400
    /\ Len(teams) = 2
    /\ TeamByName(call.name).description # call.description

\* How often the row (team_id, user_id) occurs in a team_members table.
Membership(rows, team_id, user_id) ==
    Cardinality({i \in 1..Len(rows) : rows[i] = <<team_id, user_id>>})

TeamExists(team_id) == \E i \in 1..Len(teams) : teams[i].id = team_id

EveryMemberOnce ==
    \A i, j \in 1..Len(team_members) :
        team_members[i] = team_members[j] => i = j

AddTeamMemberContract ==
    call'.op = "add_team_member" =>
        LET t == call'.team_id
            u == call'.user_id
        IN IF ~ TeamExists(t)
             THEN /\ ret'.status = 404 /\ ret'.detail = "team"
                  /\ team_members' = team_members
           ELSE IF u \notin Users
             THEN /\ ret'.status = 404 /\ ret'.detail = "user"
                  /\ team_members' = team_members
           ELSE IF Membership(team_members, t, u) > 0
             THEN /\ ret'.status = 400
                  /\ team_members' = team_members
             ELSE /\ ret'.status = 200
                  /\ Membership(team_members', t, u) = 1
                  /\ Len(team_members') = Len(team_members) + 1
                  /\ \A i \in 1..Len(team_members) :
                        team_members'[i] = team_members[i]

\* C11: add_team_member answers 404 when the team does not exist, tested
\* before the user, 404 when the user does not exist and 400 when the user
\* is a member already, and leaves the membership as it was in all three
\* cases; otherwise the user becomes a member exactly once.
C11_AddTeamMember == []EveryMemberOnce /\ [][AddTeamMemberContract]_vars

\* A member of one team was refused a second time for that team after
\* joining another team as well.
C11_Witness ==
    /\ ret.op = "add_team_member" /\ ret.status = 400
    /\ Membership(team_members, 1, call.user_id) = 1
    /\ Membership(team_members, 2, call.user_id) = 1
    /\ call.team_id = 1

----------------------------------------------------------------------------
(* CLI assess and analyze-team (cli/main.py) and table team_analyses *)

UpperChar(c) ==
    CASE c = "a" -> "A" [] c = "b" -> "B" [] c = "c" -> "C" [] c = "d" -> "D"
      [] c = "e" -> "E" [] c = "f" -> "F" [] c = "g" -> "G" [] c = "h" -> "H"
      [] c = "i" -> "I" [] c = "j" -> "J" [] c = "k" -> "K" [] c = "l" -> "L"
      [] c = "m" -> "M" [] c = "n" -> "N" [] c = "o" -> "O" [] c = "p" -> "P"
      [] c = "q" -> "Q" [] c = "r" -> "R" [] c = "s" -> "S" [] c = "t" -> "T"
      [] c = "u" -> "U" [] c = "v" -> "V" [] c = "w" -> "W" [] c = "x" -> "X"
      [] c = "y" -> "Y" [] c = "z" -> "Z" [] OTHER -> c

\* str.upper()
RECURSIVE UpperFirst(_, _)
UpperFirst(str, n) ==
    IF n = 0 THEN ""
    ELSE UpperFirst(str, n - 1) \o UpperChar(CharAt(str, n))

upper(str) == UpperFirst(str, Len(str))

\* Rows of team_analyses the model lets the table grow to.
MaxAnalyses == 2

\* The balance assessment of the analyze-team command.
BalanceAssessment(score) ==
    IF RatGt(score, Rat(8, 10)) THEN "Highly Balanced"
    ELSE IF RatGt(score, Rat(6, 10)) THEN "Balanced"
    ELSE IF RatGt(score, Rat(4, 10)) THEN "Moderately Balanced"
    ELSE "Homogeneous"

\* TeamAnalysis(team_id, analysis_type, results, score): the row the command
\* adds; id is the next primary key.  Of each member the results keep the
\* user id and the MBTI type.
TeamAnalysis(team_id, members, types) ==
    LET distribution == mbti_distribution(types, Len(types))
        score == diversity_score(distribution, Len(members))
    IN [id |-> Len(team_analyses) + 1,
        team_id |-> team_id,
        analysis_type |-> "comprehensive",
        results |-> [mbti_distribution |-> distribution,
                     diversity_score |-> score,
                     balance |-> BalanceAssessment(score),
                     member_count |-> Len(members),
                     members |-> [i \in 1..Len(members) |->
                                     [user_id |-> members[i],
                                      mbti_type |-> types[i]]]],
        score |-> Rat(100 * score[1], score[2])]

\* A command that keeps one row per team: it replaces the team's row when
\* there is one.
analyze_team_upsert(team_id, committed) ==
    /\ Len(team_analyses) < MaxAnalyses
    /\ call' = [op |-> "analyze_team", team_id |-> team_id]
    /\ LET team == TeamById(team_id)
           members == MembersOf(team_id)
           types == [i \in 1..Len(members) |->
                        get_user_mbti_type(ProfileOf(members[i]))]
           old == {i \in 1..Len(team_analyses) :
                      team_analyses[i].team_id = team_id}
       IN IF team = None
            THEN /\ ret' = [op |-> "analyze_team", exit_code |-> 1,
                            error |-> "team not found",
                            session |-> get_db_session(TRUE, TRUE)]
                 /\ team_analyses' = team_analyses
          ELSE IF Len(members) = 0
            THEN /\ ret' = [op |-> "analyze_team", exit_code |-> 1,
                            error |-> "team has no members",
                            session |-> get_db_session(TRUE, TRUE)]
                 /\ team_analyses' = team_analyses
          ELSE IF ~ committed
            THEN /\ ret' = [op |-> "analyze_team", exit_code |-> 1,
                            error |-> "database error",
                            session |-> get_db_session(FALSE, FALSE)]
                 /\ team_analyses' = team_analyses
          ELSE /\ ret' = [op |-> "analyze_team", exit_code |-> 0,
                          analysis |-> TeamAnalysis(team_id, members, types),
                          session |-> get_db_session(FALSE, TRUE)]
               /\ team_analyses' =
                    IF old = {}
                      THEN Append(team_analyses,
                                  TeamAnalysis(team_id, members, types))
                      ELSE [i \in 1..Len(team_analyses) |->
                              IF i \in old
                                THEN [TeamAnalysis(team_id, members, types)
                                        EXCEPT !.id = i]
                                ELSE team_analyses[i]]
    /\ UNCHANGED <<pending, adb, scores, teams, team_members, user_profiles, accepted>>

\* analyze_team(team_id) inside get_db_session(): exit 1 for a missing team
\* or a team without members; otherwise one TeamAnalysis row is added and
\* the session commits on leaving the block.  committed is whether that
\* commit goes through: on SQLAlchemyError the session rolls back and the
\* command exits 1.
analyze_team(team_id, committed) ==
    /\ Len(team_analyses) < MaxAnalyses
    /\ call' = [op |-> "analyze_team", team_id |-> team_id]
    /\ LET team == TeamById(team_id)
           members == MembersOf(team_id)
           types == [i \in 1..Len(members) |->
                        get_user_mbti_type(ProfileOf(members[i]))]
       IN IF team = None
            THEN /\ ret' = [op |-> "analyze_team", exit_code |-> 1,
                            error |-> "team not found",
                            session |-> get_db_session(TRUE, TRUE)]
                 /\ team_analyses' = team_analyses
          ELSE IF Len(members) = 0
            THEN /\ ret' = [op |-> "analyze_team", exit_code |-> 1,
                            error |-> "team has no members",
                            session |-> get_db_session(TRUE, TRUE)]
                 /\ team_analyses' = team_analyses
          ELSE IF ~ committed
            THEN /\ ret' = [op |-> "analyze_team", exit_code |-> 1,
                            error |-> "database error",
                            session |-> get_db_session(FALSE, FALSE)]
                 /\ team_analyses' = team_analyses
          ELSE /\ ret' = [op |-> "analyze_team", exit_code |-> 0,
                          analysis |-> TeamAnalysis(team_id, members, types),
                          session |-> get_db_session(FALSE, TRUE)]
               /\ team_analyses' =
                    Append(team_analyses,
                           TeamAnalysis(team_id, members, types))
    /\ UNCHANGED <<pending, adb, scores, teams, team_members, user_profiles, accepted>>

\* class AssessmentType
AssessmentType == {"full", "mbti", "archetype", "jungian"}

\* The sections assess displays for an assessment type.
DisplayedSections(assessment_type) ==
    (IF assessment_type \in {"full", "mbti", "jungian"}
       THEN {"jungian_profile"} ELSE {})
    \cup (IF assessment_type \in {"full", "archetype"}
            THEN {"archetypes"} ELSE {})
    \cup (IF assessment_type = "full"
            THEN {"defense_mechanisms", "recommendations"} ELSE {})

\* A command that adds a row on every run.
SaveProfile_always_add(user_id, mbti_type_str) ==
    Append(user_profiles,
           UserProfile(Len(user_profiles) + 1, user_id, mbti_type_str,
                       [mbti_type |-> mbti_type_str]))

\* The profile table after assess saved mbti_type_str for user_id: a new
\* row when the query found none, otherwise the row found is updated.  Of
\* trait_scores the model keeps the "mbti_type" entry.
SaveProfile(user_id, mbti_type_str) ==
    IF ProfileOf(user_id) = None
      THEN Append(user_profiles,
                  UserProfile(Len(user_profiles) + 1, user_id, mbti_type_str,
                              [mbti_type |-> mbti_type_str]))
    ELSE [i \in 1..Len(user_profiles) |->
            IF user_profiles[i].id = ProfileOf(user_id).id
              THEN UserProfile(user_profiles[i].id, user_id, mbti_type_str,
                               [mbti_type |-> mbti_type_str])
            ELSE user_profiles[i]]

\* assess(user_id, assessment_type) inside get_db_session(): exit 1 for a
\* missing user or a stored type that is no MBTIType; otherwise the
\* sections of the assessment type are displayed and the user's profile
\* row is created or updated with the type the command resolved.
assess(user_id, assessment_type, committed) ==
    /\ call' = [op |-> "assess", user_id |-> user_id,
                assessment_type |-> assessment_type]
    /\ IF user_id \notin Users
         THEN /\ ret' = [op |-> "assess", exit_code |-> 1,
                         error |-> "user not found",
                         session |-> get_db_session(TRUE, TRUE)]
              /\ user_profiles' = user_profiles
       ELSE LET profile == ProfileOf(user_id)
                mbti_type_str == get_user_mbti_type(profile)
            IN IF upper(mbti_type_str) \notin MBTIType
                 THEN /\ ret' = [op |-> "assess", exit_code |-> 1,
                                 error |-> "invalid MBTI type",
                                 session |-> get_db_session(TRUE, TRUE)]
                      /\ user_profiles' = user_profiles
               ELSE IF ~ committed
                 THEN /\ ret' = [op |-> "assess", exit_code |-> 1,
                                 error |-> "database error",
                                 displayed |-> DisplayedSections(assessment_type),
                                 session |-> get_db_session(FALSE, FALSE)]
                      /\ user_profiles' = user_profiles
               ELSE /\ ret' = [op |-> "assess", exit_code |-> 0,
                               mbti_type |-> mbti_type_str,
                               displayed |-> DisplayedSections(assessment_type),
                               session |-> get_db_session(FALSE, TRUE)]
                    /\ user_profiles' = SaveProfile(user_id, mbti_type_str)
    /\ UNCHANGED <<pending, adb, scores, teams, team_members, team_analyses, accepted>>

\* The commands that read or write the database, run one after another;
\* assess runs with its default assessment type and recommend with its
\* default of 5 recommendations.
NextCliDb ==
    \/ \E team_id \in 1..2, committed \in BOOLEAN :
          analyze_team(team_id, committed)
    \/ \E user_id \in 1..(MaxUsers + 1), committed \in BOOLEAN :
          assess(user_id, "full", committed)
    \/ \E team_id \in 1..2 : recommend(team_id, 5)

\* The seeded database of these runs: team 1 with the first k users as
\* members; user 1 has no profile row yet or one that an import left with
\* only trait_scores["mbti_type"], the other users have none.
InitCliDb ==
    /\ scores = EmptyScores
    /\ call = NoCall
    /\ ret = NoRet
    /\ teams = <<[id |-> 1, name |-> "Alpha", description |-> Some("seeded")]>>
    /\ \E k \in 0..MaxUsers : team_members = [i \in 1..k |-> <<1, i>>]
    /\ user_profiles \in
         {<<>>, <<UserProfile(1, 1, "", [mbti_type |-> "ISTP"])>>}
    /\ team_analyses = <<>>
    /\ accepted = <<>>
    /\ assessments = <<>>
    /\ questions = <<>>
    /\ responses = <<>>
    /\ pending = <<>>

SpecCliDb == InitCliDb /\ [][NextCliDb]_vars

AnalyzeTeamSucceeded == call'.op = "analyze_team" /\ ret'.exit_code = 0

RowsKept ==
    /\ Len(team_analyses') >= Len(team_analyses)
    /\ \A i \in 1..Len(team_analyses) : team_analyses'[i] = team_analyses[i]

AppendOnlyStep ==
    /\ RowsKept
    /\ IF AnalyzeTeamSucceeded
         THEN /\ Len(team_analyses') = Len(team_analyses) + 1
              /\ team_analyses'[Len(team_analyses')].team_id = call'.team_id
         ELSE team_analyses' = team_analyses

\* C12: TeamAnalysis is append-only: every successful analyze-team run adds
\* exactly one new row for the team it analysed, and no step of any command
\* changes or removes a row that is already in the table.
C12_AppendOnly == [][AppendOnlyStep]_vars

C12_Witness ==
    /\ ret.op = "analyze_team"
    /\ ret.exit_code = 0
    /\ Len(team_analyses) = 2
    /\ team_analyses[1].team_id = team_analyses[2].team_id
    /\ team_analyses[1].id # team_analyses[2].id

----------------------------------------------------------------------------
(* Assessment routes (api/routes/assessment.py), the score calculator     *)
(* (core/assessment/calculator.py) and tables assessments, questions,     *)
(* responses (core/assessment/models.py)                                   *)

RatAdd(a, b) == Rat(a[1] * b[2] + b[1] * a[2], a[2] * b[2])
RatMul(a, b) == Rat(a[1] * b[1], a[2] * b[2])
RatDiv(a, b) == Rat(a[1] * b[2], a[2] * b[1])

\* Rows of table responses the model lets the table grow to.
MaxResponses == 3

\* An answer is JSON: a number or a string here.
Number(n) == [number |-> n]
String(s) == [string |-> s]

\* Bodies of POST /assessments/{id}/responses, question_id apart: a scale
\* answer, a number no scale holds, a text answer with a confidence, and a
\* confidence outside 0..1.
ResponseInputs ==
    {[answer |-> Number(80), confidence |-> None],
     [answer |-> Number(150), confidence |-> None],
     [answer |-> String("yes"), confidence |-> Some(Rat(9, 10))],
     [answer |-> String("no"), confidence |-> Some(Rat(3, 2))]}

\* ResponseBase: confidence is None or within 0..1, else the request is
\* answered 422 before the handler runs.
ResponseBaseValid(response) ==
    \/ response.confidence = None
    \/ /\ RatLe(Rat(0, 1), response.confidence.some)
       /\ RatLe(response.confidence.some, Rat(1, 1))

\* AssessmentValidator.validate_response_confidence: TRUE when it returns
\* an error
validate_response_confidence(confidence) ==
    /\ confidence # None
    /\ \/ RatLt(confidence.some, Rat(0, 1))
       \/ RatGt(confidence.some, Rat(1, 1))

\* db.query(AssessmentORM).filter(AssessmentORM.id == assessment_id).first()
AssessmentIndex(assessment_id) ==
    {i \in 1..Len(assessments) : assessments[i].id = assessment_id}

\* db.query(QuestionORM).filter(QuestionORM.id == question_id).first()
QuestionIndex(question_id) ==
    {i \in 1..Len(questions) : questions[i].id = question_id}

\* submit_response(assessment_id, response, db): 404 for an unknown
\* assessment, 404 for an unknown question, 400 for a confidence outside
\* 0..1, otherwise a ResponseORM row is added and committed; 500 with a
\* rollback when that fails (committed = FALSE).
submit_response(assessment_id, question_id, response, committed) ==
    /\ Len(responses) < MaxResponses
    /\ call' = [op |-> "submit_response", assessment_id |-> assessment_id,
                question_id |-> question_id, response |-> response]
    /\ IF ~ ResponseBaseValid(response)
         THEN ret' = [op |-> "submit_response", status |-> 422]
              /\ responses' = responses
       ELSE IF AssessmentIndex(assessment_id) = {}
         THEN ret' = [op |-> "submit_response", status |-> 404,
                      detail |-> "assessment"]
              /\ responses' = responses
       ELSE IF QuestionIndex(question_id) = {}
         THEN ret' = [op |-> "submit_response", status |-> 404,
                      detail |-> "question"]
              /\ responses' = responses
       ELSE IF validate_response_confidence(response.confidence)
         THEN ret' = [op |-> "submit_response", status |-> 400]
              /\ responses' = responses
       ELSE IF ~ committed
         THEN ret' = [op |-> "submit_response", status |-> 500]
              /\ responses' = responses
       ELSE LET db_response == [id |-> Len(responses) + 1,
                                assessment_id |-> assessment_id,
                                question_id |-> question_id,
                                answer |-> response.answer,
                                confidence |-> response.confidence]
            IN /\ ret' = [op |-> "submit_response", status |-> 201,
                          body |-> db_response]
               /\ responses' = Append(responses, db_response)
    /\ UNCHANGED <<pending, scores, db, assessments, questions>>

\* AssessmentORM.responses: the rows of the assessment, in insertion order
ResponsesOf(assessment_id) ==
    SelectSeq(responses, LAMBDA r : r.assessment_id = assessment_id)

\* question_map.get(question_id), for a question_id that is in the map
QuestionOf(question_id) ==
    questions[CHOOSE i \in QuestionIndex(question_id) :
                 \A j \in QuestionIndex(question_id) : j <= i]

\* The responses whose question is in question_map.
Scored(rs) == SelectSeq(rs, LAMBDA r : QuestionIndex(r.question_id) # {})

\* AssessmentCalculator._score_response
_score_response(response) ==
    IF "number" \in DOMAIN response.answer
      THEN Rat(response.answer.number, 1)
    ELSE IF response.confidence # None /\ response.confidence.some[1] # 0
      THEN RatMul(response.confidence.some, Rat(100, 1))
    ELSE Rat(50, 1)

RECURSIVE RatSum(_)
RatSum(seq) ==
    IF Len(seq) = 0 THEN Rat(0, 1)
    ELSE RatAdd(RatSum(SubSeq(seq, 1, Len(seq) - 1)), seq[Len(seq)])

\* AssessmentCalculator._calculate_category_scores
_calculate_category_scores(rs) ==
    LET scored == Scored(rs)
        category(r) == QuestionOf(r.question_id).category
        categories == {category(scored[i]) : i \in 1..Len(scored)}
        category_totals(cat) ==
            LET of_cat == SelectSeq(scored, LAMBDA r : category(r) = cat)
            IN [i \in 1..Len(of_cat) |-> _score_response(of_cat[i])]
    IN [cat \in categories |->
          RatDiv(RatSum(category_totals(cat)),
                 Rat(Len(category_totals(cat)), 1))]

\* AssessmentCalculator.category_weights.get(cat.lower(), 1.0)
category_weights(cat) ==
    IF lower(cat) = "interpersonal" THEN Rat(12, 10) ELSE Rat(1, 1)

RECURSIVE RatSumOver(_, _, _)
RatSumOver(keys, f, acc) ==
    IF keys = {} THEN acc
    ELSE LET k == CHOOSE x \in keys : TRUE
         IN RatSumOver(keys \ {k}, f, RatAdd(acc, f[k]))

\* AssessmentCalculator._calculate_total_score
_calculate_total_score(category_scores) ==
    IF DOMAIN category_scores = {} THEN Rat(0, 1)
    ELSE LET weighted ==
                 [cat \in DOMAIN category_scores |->
                     RatMul(category_scores[cat], category_weights(cat))]
             weights ==
                 [cat \in DOMAIN category_scores |-> category_weights(cat)]
             weighted_sum ==
                 RatSumOver(DOMAIN category_scores, weighted, Rat(0, 1))
             total_weight ==
                 RatSumOver(DOMAIN category_scores, weights, Rat(0, 1))
         IN IF total_weight[1] > 0
              THEN RatDiv(weighted_sum, total_weight) ELSE Rat(0, 1)

\* str.title() of a one-word category
title(str) ==
    IF Len(str) = 0 THEN ""
    ELSE UpperChar(CharAt(str, 1)) \o lower(SubSeq(str, 2, Len(str)))

\* TraitProfile.add_score raises ValueError for a score outside 0..100;
\* _build_trait_profile raises when one of its add_score calls does.
BuildTraitProfileRaises(rs) ==
    \E i \in 1..Len(Scored(rs)) :
        LET score == _score_response(Scored(rs)[i])
        IN RatLt(score, Rat(0, 1)) \/ RatGt(score, Rat(100, 1))

\* AssessmentCalculator._build_trait_profile followed by get_all_scores():
\* a later add_score to the same trait replaces the earlier one.
_build_trait_profile(rs) ==
    LET scored == Scored(rs)
        trait_name(r) == title(QuestionOf(r.question_id).category)
        names == {trait_name(scored[i]) : i \in 1..Len(scored)}
        last(name) == CHOOSE i \in 1..Len(scored) :
                         /\ trait_name(scored[i]) = name
                         /\ \A j \in 1..Len(scored) :
                               trait_name(scored[j]) = name => j <= i
    IN [name \in names |-> _score_response(scored[last(name)])]

\* AssessmentCalculator._calculate_completion
_calculate_completion(rs) ==
    IF Len(questions) = 0 THEN Rat(0, 1)
    ELSE RatMul(Rat(Len(rs), Len(questions)), Rat(100, 1))

\* AssessmentCalculator.calculate_scores(...).to_dict(), for responses on
\* which _build_trait_profile does not raise
calculate_scores(rs) ==
    IF Len(rs) = 0
      THEN [total_score |-> Rat(0, 1),
            category_scores |-> [cat \in {} |-> Rat(0, 1)],
            trait_scores |-> [name \in {} |-> Rat(0, 1)],
            completion_percentage |-> Rat(0, 1)]
      ELSE [total_score |->
                _calculate_total_score(_calculate_category_scores(rs)),
            category_scores |-> _calculate_category_scores(rs),
            trait_scores |-> _build_trait_profile(rs),
            completion_percentage |-> _calculate_completion(rs)]

\* A handler that marks the assessment analyzed in a transaction of its
\* own before it calculates.
calculate_results_marked(assessment_id, committed) ==
    /\ call' = [op |-> "calculate_results", assessment_id |-> assessment_id]
    /\ IF AssessmentIndex(assessment_id) = {}
         THEN /\ ret' = [op |-> "calculate_results", status |-> 404]
              /\ assessments' = assessments
       ELSE LET i == CHOOSE j \in AssessmentIndex(assessment_id) : TRUE
                rs == ResponsesOf(assessment_id)
                marked == [assessments EXCEPT ![i].status = "analyzed"]
            IN IF Len(rs) > 0 /\ BuildTraitProfileRaises(rs)
                 THEN /\ ret' = [op |-> "calculate_results", status |-> 500]
                      /\ assessments' = marked
               ELSE IF ~ committed
                 THEN /\ ret' = [op |-> "calculate_results", status |-> 500]
                      /\ assessments' = marked
               ELSE /\ ret' = [op |-> "calculate_results", status |-> 200,
                               body |-> [assessment_id |-> assessment_id,
                                         status |-> "completed",
                                         results |-> calculate_scores(rs)]]
                    /\ assessments' =
                         [marked EXCEPT ![i].results = calculate_scores(rs)]
    /\ UNCHANGED <<pending, scores, db, questions, responses>>

\* calculate_results(assessment_id, db): 404 for an unknown assessment;
\* the scores are calculated from the assessment's responses and all
\* questions, stored with status "analyzed" and committed; an exception of
\* the calculation or of the commit (committed = FALSE) rolls back and
\* answers 500.
calculate_results(assessment_id, committed) ==
    /\ call' = [op |-> "calculate_results", assessment_id |-> assessment_id]
    /\ IF AssessmentIndex(assessment_id) = {}
         THEN /\ ret' = [op |-> "calculate_results", status |-> 404]
              /\ assessments' = assessments
       ELSE LET i == CHOOSE j \in AssessmentIndex(assessment_id) : TRUE
                rs == ResponsesOf(assessment_id)
            IN IF Len(rs) > 0 /\ BuildTraitProfileRaises(rs)
                 THEN /\ ret' = [op |-> "calculate_results", status |-> 500]
                      /\ assessments' = assessments
               ELSE IF ~ committed
                 THEN /\ ret' = [op |-> "calculate_results", status |-> 500]
                      /\ assessments' = assessments
               ELSE /\ ret' = [op |-> "calculate_results", status |-> 200,
                               body |-> [assessment_id |-> assessment_id,
                                         status |-> "completed",
                                         results |-> calculate_scores(rs)]]
                    /\ assessments' =
                         [assessments EXCEPT
                            ![i].results = calculate_scores(rs),
                            ![i].status = "analyzed"]
    /\ UNCHANGED <<pending, scores, db, questions, responses>>

\* One assessment, draft or in progress, without results, and two
\* questions; no response yet.
InitAssessment ==
    /\ scores = EmptyScores
    /\ call = NoCall
    /\ ret = NoRet
    /\ teams = <<>>
    /\ team_members = <<>>
    /\ user_profiles = <<>>
    /\ team_analyses = <<>>
    /\ accepted = <<>>
    /\ \E status \in {"draft", "in_progress"} :
          assessments = <<[id |-> 1, status |-> status, results |-> None]>>
    /\ questions = <<[id |-> 1, category |-> "cognitive"],
                     [id |-> 2, category |-> "interpersonal"]>>
    /\ responses = <<>>
    /\ pending = <<>>

\* Requests name assessment 1 or an unknown one, question 1, 2 or an
\* unknown one.
NextAssessment ==
    \/ \E assessment_id \in 1..2, question_id \in 1..3,
          response \in ResponseInputs, committed \in BOOLEAN :
          submit_response(assessment_id, question_id, response, committed)
    \/ \E assessment_id \in 1..2, committed \in BOOLEAN :
          calculate_results(assessment_id, committed)

SpecAssessment == InitAssessment /\ [][NextAssessment]_vars

\* C13: after any sequence of submit_response requests at most one
\* response is stored for each pair of assessment_id and question_id.
C13_OneResponsePerQuestion ==
    \A i, j \in 1..Len(responses) :
        /\ responses[i].assessment_id = responses[j].assessment_id
        /\ responses[i].question_id = responses[j].question_id
        => i = j

CalculateResultsContract ==
    call'.op = "calculate_results" =>
        LET found == AssessmentIndex(call'.assessment_id)
        IN IF ret'.status = 200
             THEN /\ found # {}
                  /\ \A i \in 1..Len(assessments) :
                        IF i \in found
                          THEN /\ assessments'[i].status = "analyzed"
                               /\ assessments'[i].results = ret'.body.results
                               /\ assessments'[i].id = assessments[i].id
                          ELSE assessments'[i] = assessments[i]
                  /\ Len(assessments') = Len(assessments)
                  /\ RatEq(ret'.body.results.completion_percentage,
                           _calculate_completion(
                               ResponsesOf(call'.assessment_id)))
             ELSE /\ ret'.status \in {404, 500}
                  /\ ret'.status = 404 <=> found = {}
                  /\ assessments' = assessments

\* C20: a calculate_results request answered 200 has stored the results it
\* returns on the assessment and set the stored status to "analyzed"; a
\* request answered 404 (unknown assessment) or 500 (the calculation or the
\* commit failed) leaves every stored status and result as it was.
C20_CalculateResults == [][CalculateResultsContract]_vars

C20_Witness ==
    /\ ret.op = "calculate_results"
    /\ ret.status = 200
    /\ Len(ResponsesOf(1)) = 2
    /\ assessments[1].status = "analyzed"
    /\ assessments[1].results = ret.body.results
    /\ DOMAIN ret.body.results.trait_scores = {"Cognitive", "Interpersonal"}

----------------------------------------------------------------------------
(* JungianAnalyzer and assess_collective_unconscious_patterns             *)
(* (core/psychology/jungian.py)                                            *)

\* enum Archetype, by value
Archetype ==
    {"self", "shadow", "anima", "animus", "persona", "wise_old_man",
     "great_mother", "hero", "trickster"}

\* JungianAnalyzer._load_indicators, in the order of the dict
archetype_indicators ==
    << [archetype |-> "hero",
        indicators |-> <<"overcomes challenges", "seeks achievement",
                         "competitive nature", "goal-oriented">>],
       [archetype |-> "shadow",
        indicators |-> <<"hidden tendencies", "repressed desires",
                         "unconscious behaviors", "denied aspects">>],
       [archetype |-> "wise_old_man",
        indicators |-> <<"seeks wisdom", "mentoring others",
                         "reflective nature", "values knowledge">>] >>

\* ArchetypalPattern(archetype, strength, manifestations, integration_level)
ArchetypalPattern(archetype, strength, manifestations, integration_level) ==
    [archetype |-> archetype, strength |-> strength,
     manifestations |-> manifestations,
     integration_level |-> integration_level]

\* A dominance test that lets a strength of exactly 0.7 pass.
is_dominant_inclusive(pattern) == RatLe(Rat(7, 10), pattern.strength)

\* ArchetypalPattern.is_dominant
is_dominant(pattern) == RatGt(pattern.strength, Rat(7, 10))

\* ArchetypalPattern.needs_integration
needs_integration(pattern) == RatLt(pattern.integration_level, Rat(5, 10))

\* JungianAnalyzer._assess_integration
_assess_integration(archetype) == Rat(6, 10)

\* The loop of identify_active_archetypes over the first n archetypes: the
\* patterns appended, each paired with its sort key.
RECURSIVE ActivePatterns(_, _)
ActivePatterns(behaviors, n) ==
    IF n = 0 THEN <<>>
    ELSE LET rest == ActivePatterns(behaviors, n - 1)
             entry == archetype_indicators[n]
             manifestations == matching_behaviors(behaviors, entry.indicators,
                                                  Len(behaviors))
             matches == Len(manifestations)
             strength == RatMin(Rat(1, 1),
                                Rat(matches, Len(entry.indicators)))
             pattern == ArchetypalPattern(entry.archetype, strength,
                            manifestations,
                            _assess_integration(entry.archetype))
         IN IF matches > 0 THEN Append(rest, <<pattern, strength>>) ELSE rest

\* JungianAnalyzer.identify_active_archetypes(behaviors, responses)
identify_active_archetypes(behaviors) ==
    LET patterns == ActivePatterns(behaviors, Len(archetype_indicators))
        ordered == sorted_by_score_desc(patterns)
    IN [i \in 1..Len(ordered) |-> ordered[i][1]]

\* archetype_counts[a] = archetype_counts.get(a, 0) + 1 on a dict kept as
\* the sequence of its items in insertion order
Increment(counts, archetype) ==
    IF \E i \in 1..Len(counts) : counts[i][1] = archetype
      THEN [i \in 1..Len(counts) |->
              IF counts[i][1] = archetype
                THEN <<archetype, counts[i][2] + 1>> ELSE counts[i]]
      ELSE Append(counts, <<archetype, 1>>)

\* The inner loop over the first n patterns of one member.
RECURSIVE CountPatterns(_, _, _)
CountPatterns(counts, patterns, n) ==
    IF n = 0 THEN counts
    ELSE LET before == CountPatterns(counts, patterns, n - 1)
         IN IF is_dominant(patterns[n])
              THEN Increment(before, patterns[n].archetype) ELSE before

\* The outer loop over the first n members: archetype_counts.
RECURSIVE archetype_counts(_, _)
archetype_counts(group_patterns, n) ==
    IF n = 0 THEN <<>>
    ELSE CountPatterns(archetype_counts(group_patterns, n - 1),
                       group_patterns[n], Len(group_patterns[n]))

\* max(archetype_counts.items(), key=lambda x: x[1])[0].value: the first
\* item among those with the largest count
MaxItem(counts) ==
    counts[CHOOSE i \in 1..Len(counts) :
              /\ \A j \in 1..Len(counts) : counts[j][2] <= counts[i][2]
              /\ \A j \in 1..(i - 1) : counts[j][2] < counts[i][2]][1]

\* archetype_counts[arch]
CountOf(counts, arch) ==
    counts[CHOOSE i \in 1..Len(counts) : counts[i][1] = arch][2]

\* assess_collective_unconscious_patterns(group_patterns)
assess_collective_unconscious_patterns(group_patterns) ==
    LET counts == archetype_counts(group_patterns, Len(group_patterns))
        total_members == Len(group_patterns)
        kept == {i \in 1..Len(counts) :
                    RatGt(Rat(counts[i][2], total_members), Rat(3, 10))}
    IN [collective_archetypes |->
            [arch \in {counts[i][1] : i \in kept} |->
                Rat(CountOf(counts, arch), total_members)],
        archetype_diversity |-> Len(counts),
        group_size |-> total_members,
        dominant_pattern |->
            IF Len(counts) > 0 THEN Some(MaxItem(counts)) ELSE None]

\* Largest group handed to assess_collective_unconscious_patterns; 3 of 10
\* is the share of exactly 0.3.
MaxGroup == 10

\* The patterns of one member: none, a hero at full strength, or a shadow
\* at 0.75 with a hero at exactly 0.7.
MemberPatterns ==
    {<<>>,
     <<ArchetypalPattern("hero", Rat(1, 1), <<>>, Rat(6, 10))>>,
     <<ArchetypalPattern("shadow", Rat(3, 4), <<>>, Rat(6, 10)),
       ArchetypalPattern("hero", Rat(7, 10), <<>>, Rat(6, 10))>>}

GroupPatterns == UNION {[1..n -> MemberPatterns] : n \in 0..MaxGroup}

\* The request is drawn by the initial state; the call answers it.
CallAssessCollective ==
    /\ call.op = "request"
    /\ call' = [op |-> "assess_collective_unconscious_patterns",
                group_patterns |-> call.group_patterns]
    /\ ret' = [op |-> "assess_collective_unconscious_patterns",
               value |-> assess_collective_unconscious_patterns(
                             call.group_patterns)]
    /\ UNCHANGED <<pending, scores, db, adb>>

InitCollective ==
    /\ call \in {[op |-> "request", group_patterns |-> g] :
                    g \in GroupPatterns}
    /\ ret = NoRet
    /\ scores = EmptyScores
    /\ EmptyDb

NextCollective == CallAssessCollective

SpecCollective == InitCollective /\ [][NextCollective]_vars

\* The members that have a pattern of the archetype with strength > 0.7.
DominantIndividuals(group_patterns, archetype) ==
    {i \in 1..Len(group_patterns) :
        \E k \in 1..Len(group_patterns[i]) :
            /\ group_patterns[i][k].archetype = archetype
            /\ RatGt(group_patterns[i][k].strength, Rat(7, 10))}

\* C18: with count(a) the number of members that have a pattern of
\* archetype a with strength > 0.7, collective_archetypes holds exactly the
\* archetypes with count(a) / group size > 0.3, each with that share, and
\* dominant_pattern is an archetype of largest count, or None when every
\* count is 0 (the empty group included).
C18_CollectivePatterns ==
    ret.op = "assess_collective_unconscious_patterns" =>
        LET g == call.group_patterns
            n == Len(g)
            count(a) == Cardinality(DominantIndividuals(g, a))
            collective == ret.value.collective_archetypes
        IN /\ ret.value.group_size = n
           /\ DOMAIN collective =
                 {a \in Archetype : n > 0 /\ 10 * count(a) > 3 * n}
           /\ \A a \in DOMAIN collective :
                 RatEq(collective[a], Rat(count(a), n))
           /\ IF \A a \in Archetype : count(a) = 0
                THEN ret.value.dominant_pattern = None
                ELSE \E a \in Archetype :
                        /\ ret.value.dominant_pattern = Some(a)
                        /\ \A b \in Archetype : count(b) <= count(a)

\* Ten members: three heroes at full strength are a share of exactly 0.3
\* and stay out, four members whose hero is at exactly 0.7 count for the
\* shadow only.
C18_Witness ==
    /\ ret.op = "assess_collective_unconscious_patterns"
    /\ Len(call.group_patterns) = 10
    /\ Cardinality(DominantIndividuals(call.group_patterns, "hero")) = 3
    /\ Cardinality(DominantIndividuals(call.group_patterns, "shadow")) = 4
    /\ DOMAIN ret.value.collective_archetypes = {"shadow"}
    /\ ret.value.dominant_pattern = Some("shadow")

----------------------------------------------------------------------------
(* POST /analysis/team/{team_id} (api/routes/analysis.py) *)

\* Largest member list of a team analysis request.
MaxTeamMembers == 3

\* TeamMemberInput, user_id apart: a known type, a known type in lower
\* case with three hero behaviours, a string that is no MBTI type, and a
\* known type with a wise-old-man and a denial behaviour.
TeamMemberInputs ==
    {[mbti_type |-> "INTJ", behaviors |-> <<>>],
     [mbti_type |-> "enfp",
      behaviors |-> <<"goal-oriented", "Seeks Achievement",
                      "competitive nature">>],
     [mbti_type |-> "XXXX", behaviors |-> <<"justifies behavior">>],
     [mbti_type |-> "ISTJ",
      behaviors |-> <<"seeks wisdom", "ignores reality">>]}

\* TeamAnalysisRequest bodies: the member at position i has user_id 100 + i.
TeamAnalysisRequests ==
    {[team_id |-> t,
      members |-> [i \in 1..Len(m) |->
                      [user_id |-> 100 + i, mbti_type |-> m[i].mbti_type,
                       behaviors |-> m[i].behaviors]]] :
        t \in 1..2,
        m \in UNION {[1..n -> TeamMemberInputs] : n \in 0..MaxTeamMembers}}

\* DefenseProfile.is_maladaptive
is_maladaptive(profile) == RatLt(profile.adaptiveness, Rat(4, 10))

\* seq[:n]
Take(seq, n) == SubSeq(seq, 1, Min(n, Len(seq)))

\* DefenseMechanism.value
MechanismValue(mechanism) == lower(mechanism)

\* _generate_individual_recommendations(mbti_type, archetypes, defenses)
_generate_individual_recommendations(mbti_type, archetypes, defenses) ==
    LET by_type ==
            IF mbti_type \in {"INTJ", "INTP"}
              THEN <<"Consider balancing analytical thinking with emotional awareness">>
            ELSE IF mbti_type \in {"ENFP", "ENFJ"}
              THEN <<"Practice structured planning to complement your creativity">>
            ELSE <<>>
        first_two == Take(archetypes, 2)
        to_integrate == SelectSeq(first_two, needs_integration)
        by_archetype ==
            [i \in 1..Len(to_integrate) |->
                "Work on integrating " \o to_integrate[i].archetype
                    \o " archetype more consciously"]
        maladaptive == SelectSeq(defenses, is_maladaptive)
        by_defense ==
            IF Len(maladaptive) > 0
              THEN <<"Consider developing healthier coping strategies for "
                       \o MechanismValue(maladaptive[1].mechanism)>>
              ELSE <<>>
    IN by_type \o by_archetype \o by_defense

\* _generate_team_recommendations(analyses, collective, dynamics)
_generate_team_recommendations(analyses, collective, dynamics) ==
    (IF RatLt(dynamics.diversity_score, Rat(4, 10))
       THEN <<"Consider diversifying team composition for better perspective balance">>
       ELSE <<>>)
    \o (IF collective.archetype_diversity < 3
          THEN <<"Team may benefit from including members with different archetypal strengths">>
          ELSE <<>>)
    \o <<"Leverage individual strengths while supporting areas of development">>

\* IndividualAnalysisResponse built in the loop for a member whose type is
\* an MBTIType
IndividualAnalysis(member) ==
    LET profile == get_jungian_profile(upper(member.mbti_type))
        active_patterns == identify_active_archetypes(member.behaviors)
        defense_profiles == identify_defenses(member.behaviors)
        top_archetypes == Take(active_patterns, 3)
        top_defenses == Take(defense_profiles, 3)
    IN [user_id |-> member.user_id,
        mbti_type |-> member.mbti_type,
        jungian_profile |->
            [function_stack |->
                IF profile # None THEN get_function_stack(profile) ELSE <<>>],
        dominant_archetypes |->
            [i \in 1..Len(top_archetypes) |->
                [archetype |-> top_archetypes[i].archetype,
                 strength |-> top_archetypes[i].strength,
                 is_dominant |-> is_dominant(top_archetypes[i])]],
        defense_mechanisms |->
            [i \in 1..Len(top_defenses) |->
                [mechanism |-> MechanismValue(top_defenses[i].mechanism),
                 frequency |-> top_defenses[i].frequency,
                 adaptiveness |-> top_defenses[i].adaptiveness]],
        recommendations |->
            _generate_individual_recommendations(
                member.mbti_type, active_patterns, defense_profiles)]

\* The loop over request.members, first n members: a member whose type is
\* no MBTIType is passed over (except ValueError: continue).
RECURSIVE MemberLoop(_, _)
MemberLoop(members, n) ==
    IF n = 0 THEN [member_analyses |-> <<>>, all_archetypes |-> <<>>]
    ELSE LET before == MemberLoop(members, n - 1)
             member == members[n]
         IN IF upper(member.mbti_type) \notin MBTIType THEN before
            ELSE [member_analyses |->
                      Append(before.member_analyses,
                             IndividualAnalysis(member)),
                  all_archetypes |->
                      Append(before.all_archetypes,
                             identify_active_archetypes(member.behaviors))]

\* TeamAnalysisResponse of a request that passed both checks
TeamAnalysisResponse(team_id, request) ==
    LET loop == MemberLoop(request.members, Len(request.members))
        collective ==
            assess_collective_unconscious_patterns(loop.all_archetypes)
        team_dynamics ==
            _assess_team_dynamics(
                [i \in 1..Len(request.members) |->
                    request.members[i].mbti_type])
    IN [op |-> "analyze_team", status |-> 200,
        team_id |-> team_id,
        team_size |-> Len(request.members),
        member_analyses |-> loop.member_analyses,
        team_dynamics |-> team_dynamics,
        collective_patterns |-> collective,
        recommendations |->
            _generate_team_recommendations(loop.member_analyses, collective,
                                           team_dynamics)]

\* A route that trusts the path and analyses whatever the body holds.
analyze_team_route_unchecked(team_id, request) ==
    TeamAnalysisResponse(team_id, request)

\* analyze_team(team_id, request) of the analysis router
analyze_team_route(team_id, request) ==
    IF team_id # request.team_id
      THEN [op |-> "analyze_team", status |-> 400,
            detail |-> "Team ID mismatch"]
    ELSE IF Len(request.members) = 0
      THEN [op |-> "analyze_team", status |-> 400,
            detail |-> "No team members provided"]
    ELSE TeamAnalysisResponse(team_id, request)

\* The request is drawn by the initial state; the route answers it.
CallAnalyzeTeam ==
    /\ call.op = "request"
    /\ call' = [op |-> "analyze_team", team_id |-> call.team_id,
                request |-> call.request]
    /\ ret' = analyze_team_route(call.team_id, call.request)
    /\ UNCHANGED <<pending, scores, db, adb>>

InitAnalysis ==
    /\ call \in {[op |-> "request", team_id |-> t, request |-> r] :
                    t \in 1..2, r \in TeamAnalysisRequests}
    /\ ret = NoRet
    /\ scores = EmptyScores
    /\ EmptyDb

NextAnalysis == CallAnalyzeTeam

SpecAnalysis == InitAnalysis /\ [][NextAnalysis]_vars

\* C14: every accepted team analysis request is answered with team_size
\* equal to the number of members submitted and with exactly one entry of
\* member_analyses per submitted member, in their order.
C14_OneAnalysisPerMember ==
    (ret.op = "analyze_team" /\ ret.status = 200) =>
        LET members == call.request.members
        IN /\ ret.team_size = Len(members)
           /\ Len(ret.member_analyses) = Len(members)
           /\ \A i \in 1..Len(members) :
                 ret.member_analyses[i].user_id = members[i].user_id

Refused(detail) == [op |-> "analyze_team", status |-> 400, detail |-> detail]

\* C15: the route answers 400 when the team_id of the path differs from the
\* team_id of the body and 400 when the member list is empty; the answer
\* then is the error alone, no part of an analysis.
C15_RefusedWithoutAnalysis ==
    ret.op = "analyze_team" =>
        /\ call.team_id # call.request.team_id
              => ret = Refused("Team ID mismatch")
        /\ Len(call.request.members) = 0
              => ret.status = 400 /\ DOMAIN ret = DOMAIN Refused("")
        /\ (call.team_id = call.request.team_id
              /\ Len(call.request.members) = 0)
              => ret = Refused("No team members provided")

C15_Witness ==
    /\ ret = Refused("Team ID mismatch")
    /\ call.op = "analyze_team"
    /\ call.team_id = 1
    /\ call.request.team_id = 2
    /\ Len(call.request.members) = MaxTeamMembers

----------------------------------------------------------------------------
(* The match score, stated over the set of pattern traits the profile has *)

\* The positions of the pattern whose trait has a score in the profile.
PresentTraits(sc, pattern) ==
    {i \in 1..Len(pattern) : pattern[i][1] \in DOMAIN sc}

RECURSIVE SumAbsDiff(_, _, _)
SumAbsDiff(sc, pattern, positions) ==
    IF positions = {} THEN 0
    ELSE LET i == CHOOSE x \in positions : TRUE
         IN Abs(pattern[i][2] - sc[pattern[i][1]])
              + SumAbsDiff(sc, pattern, positions \ {i})

\* max(0, 100 - mean absolute difference over the present traits), 0 when
\* no trait of the pattern is present.
ExpectedMatch(sc, pattern) ==
    LET present == PresentTraits(sc, pattern)
        diff == SumAbsDiff(sc, pattern, present)
    IN IF present = {} THEN Rat(0, 1)
       ELSE IF RatLt(Rat(100, 1), Rat(diff, Cardinality(present)))
         THEN Rat(0, 1)
       ELSE RatAdd(Rat(100, 1), Rat(-diff, Cardinality(present)))

\* C16: the match score of the classified profile against every archetype
\* pattern is max(0, 100 - mean absolute difference between expected and
\* actual score over the pattern traits the profile has); absent traits add
\* nothing, and a profile with none of the pattern's traits scores 0.  The
\* confidence of the result is the largest of these scores over 100.
C16_MatchScore ==
    (ret.op = "classify" /\ ret.raised = "none") =>
        /\ \A i \in 1..Len(archetype_patterns) :
              RatEq(_calculate_pattern_match(ret.trait_scores,
                                             archetype_patterns[i].pattern),
                    ExpectedMatch(ret.trait_scores,
                                  archetype_patterns[i].pattern))
        /\ \E i \in 1..Len(archetype_patterns) :
              /\ RatEq(RatMul(ret.confidence, Rat(100, 1)),
                       ExpectedMatch(ret.trait_scores,
                                     archetype_patterns[i].pattern))
              /\ \A j \in 1..Len(archetype_patterns) :
                    RatLe(ExpectedMatch(ret.trait_scores,
                                        archetype_patterns[j].pattern),
                          ExpectedMatch(ret.trait_scores,
                                        archetype_patterns[i].pattern))

\* One LEADER trait present and 80 off, the two others absent: LEADER scores
\* 20, ANALYST, of which no trait is present, scores 0.
C16_Witness ==
    /\ ret.op = "classify" /\ ret.raised = "none"
    /\ DOMAIN ret.trait_scores = {"Extraversion"}
    /\ ret.trait_scores["Extraversion"] = 0
    /\ RatEq(MatchScoreOf(ret.trait_scores, "LEADER"), Rat(20, 1))
    /\ RatEq(MatchScoreOf(ret.trait_scores, "ANALYST"), Rat(0, 1))
    /\ RatEq(ret.confidence, Rat(20, 100))

----------------------------------------------------------------------------
(* The balance label of a team *)

\* The label the thresholds 0.8, 0.6 and 0.4 give, each strict.
LabelByThresholds(score) ==
    IF 10 * score[1] > 8 * score[2] THEN "Highly Balanced"
    ELSE IF 10 * score[1] > 6 * score[2] THEN "Balanced"
    ELSE IF 10 * score[1] > 4 * score[2] THEN "Moderately Balanced"
    ELSE "Homogeneous"

\* C17: the balance label of a team is "Highly Balanced" for a diversity
\* score > 0.8, "Balanced" for > 0.6, "Moderately Balanced" for > 0.4 and
\* "Homogeneous" otherwise, every comparison strict; stated here of the
\* label in team_dynamics of the analysis route.
C17_BalanceLabel ==
    ret.op = "_assess_team_dynamics" =>
        ret.value.balance = LabelByThresholds(ret.value.diversity_score)

\* The same of the label the analyze-team command stores with its analysis.
CommandLabelByThresholds ==
    \A i \in 1..Len(team_analyses) :
        team_analyses[i].results.balance =
            LabelByThresholds(team_analyses[i].results.diversity_score)

----------------------------------------------------------------------------
(* CaseStudyMapper (core/psychology/case_study_mapper.py) *)

\* CaseStudyMapper._load_case_studies: id and subject_profile of the cases,
\* in the insertion order of case_database
case_database ==
    << [id |-> "CS001",
        subject_profile |->
            [team_size |-> 8,
             primary_issues |-> <<"communication", "conflict">>,
             archetypes |-> <<"leader", "harmonizer", "analyst">>]],
       [id |-> "CS002",
        subject_profile |->
            [team_size |-> 5,
             primary_issues |-> <<"stress", "burnout">>,
             defense_mechanisms |-> <<"denial", "rationalization">>]],
       [id |-> "CS003",
        subject_profile |->
            [team_size |-> 3,
             primary_issues |-> <<"leadership", "authenticity">>,
             archetypes |-> <<"leader", "shadow">>]],
       [id |-> "CS004",
        subject_profile |->
            [team_size |-> 10,
             primary_issues |-> <<"collaboration", "efficiency">>,
             mbti_types |-> <<"INTJ", "ENFP", "ISTJ", "ESFJ">>]],
       [id |-> "CS005",
        subject_profile |->
            [team_size |-> 6,
             primary_issues |-> <<"conflict", "miscommunication">>,
             archetypes |-> <<"challenger", "harmonizer", "analyst">>]],
       [id |-> "CS006",
        subject_profile |->
            [team_size |-> 4,
             primary_issues |-> <<"decision_making", "confidence">>,
             experience_level |-> "new_managers"]] >>

\* A similarity that divides by the number of keys of the first profile.
_calculate_similarity_of_all(profile1, profile2) ==
    LET common_keys == (DOMAIN profile1) \cap (DOMAIN profile2)
        matches == Cardinality({key \in common_keys :
                                   profile1[key] = profile2[key]})
    IN IF common_keys = {} THEN Rat(0, 1)
       ELSE Rat(matches, Cardinality(DOMAIN profile1))

\* CaseStudyMapper._calculate_similarity
_calculate_similarity(profile1, profile2) ==
    LET common_keys == (DOMAIN profile1) \cap (DOMAIN profile2)
        matches == Cardinality({key \in common_keys :
                                   profile1[key] = profile2[key]})
    IN IF common_keys = {} THEN Rat(0, 1)
       ELSE Rat(matches, Cardinality(common_keys))

\* Python's seq[:n]
SliceTo(seq, n) ==
    IF n >= 0 THEN SubSeq(seq, 1, Min(n, Len(seq)))
    ELSE SubSeq(seq, 1, Max(0, Len(seq) + n))

\* CaseStudyMapper.find_similar_cases(profile, limit), as the ids of the
\* cases it returns
find_similar_cases(profile, limit) ==
    LET scored_cases ==
            [i \in 1..Len(case_database) |->
                <<case_database[i].id,
                  _calculate_similarity(profile,
                                        case_database[i].subject_profile)>>]
        ordered == SliceTo(sorted_by_score_desc(scored_cases), limit)
    IN [i \in 1..Len(ordered) |-> ordered[i][1]]

\* Largest limit asked for; the case list has 6 entries.
MaxLimit == 7

\* One entry of a profile, or none.
Entry(key, values) == {EmptyDict} \cup {key :> v : v \in values}

\* Profiles of the requests: any of four keys, with values that some case
\* has and values that none has, or only a key no case has.
ProfileInputs ==
    {a @@ b @@ c @@ d :
        a \in Entry("team_size", {8, 5}),
        b \in Entry("primary_issues",
                    {<<"communication", "conflict">>, <<"stress", "burnout">>}),
        c \in Entry("archetypes",
                    {<<"leader", "shadow">>,
                     <<"leader", "harmonizer", "analyst">>}),
        d \in Entry("mbti_types", {<<"INTJ">>})}
    \cup {"industry" :> "software"}

\* The request is drawn by the initial state; the call answers it.  The
\* route keeps limit within 1..20.
CallFindSimilarCases ==
    /\ call.op = "request"
    /\ call' = [op |-> "find_similar_cases", profile |-> call.profile,
                limit |-> call.limit]
    /\ ret' = [op |-> "find_similar_cases",
               value |-> find_similar_cases(call.profile, call.limit)]
    /\ UNCHANGED <<pending, scores, db, adb>>

InitCases ==
    /\ call \in {[op |-> "request", profile |-> p, limit |-> n] :
                    p \in ProfileInputs, n \in 1..MaxLimit}
    /\ ret = NoRet
    /\ scores = EmptyScores
    /\ EmptyDb

NextCases == CallFindSimilarCases

SpecCases == InitCases /\ [][NextCases]_vars

\* Position of a case in the static list.
CaseIndex(id) ==
    CHOOSE i \in 1..Len(case_database) : case_database[i].id = id

\* Equal-valued shared keys over shared keys, 0 when no key is shared.
Similarity(profile, id) ==
    LET other == case_database[CaseIndex(id)].subject_profile
        shared == {k \in DOMAIN profile : k \in DOMAIN other}
        equal == {k \in shared : profile[k] = other[k]}
    IN IF shared = {} THEN Rat(0, 1)
       ELSE Rat(Cardinality(equal), Cardinality(shared))

\* a is ranked before b: more similar, or as similar and earlier in the
\* static list.
RankedBefore(profile, a, b) ==
    \/ RatGt(Similarity(profile, a), Similarity(profile, b))
    \/ /\ RatEq(Similarity(profile, a), Similarity(profile, b))
       /\ CaseIndex(a) < CaseIndex(b)

\* C19: find_similar_cases(profile, limit) returns at most limit cases, in
\* order of non-increasing similarity (equal-valued shared keys over shared
\* keys, 0 when no key is shared); cases of equal similarity keep the order
\* of the static case list, and no case left out ranks before one returned.
C19_SimilarCases ==
    ret.op = "find_similar_cases" =>
        LET p == call.profile
            found == ret.value
            ids == {case_database[i].id : i \in 1..Len(case_database)}
            returned == {found[i] : i \in 1..Len(found)}
        IN /\ Len(found) = Min(call.limit, Len(case_database))
           /\ Len(found) <= call.limit
           /\ returned \subseteq ids
           /\ \A i, j \in 1..Len(found) :
                 i < j => RankedBefore(p, found[i], found[j])
           /\ \A a \in returned, b \in ids \ returned :
                 RankedBefore(p, a, b)

\* CS002 shares one key and matches it, CS001 shares two and matches one,
\* the other four match nothing and keep their order.
C19_Witness ==
    /\ ret.op = "find_similar_cases"
    /\ call.limit = 4
    /\ call.profile = [team_size |-> 5,
                       archetypes |-> <<"leader", "harmonizer", "analyst">>]
    /\ ret.value = <<"CS002", "CS001", "CS003", "CS004">>
\* ---------------------------------------------------------------------
\* POST /assessments/ (api/routes/assessment.py create_assessment) and
\* AssessmentValidator.validate_assessment.
\* ---------------------------------------------------------------------

\* AssessmentValidator.__init__
min_questions == 5
max_questions == 200

MaxAssessments == 2

RECURSIVE lstrip(_)
lstrip(str) ==
    IF Len(str) > 0 /\ CharAt(str, 1) = " "
      THEN lstrip(SubSeq(str, 2, Len(str)))
    ELSE str

RECURSIVE rstrip(_)
rstrip(str) ==
    IF Len(str) > 0 /\ CharAt(str, Len(str)) = " "
      THEN rstrip(SubSeq(str, 1, Len(str) - 1))
    ELSE str

\* str.strip()
strip(str) == rstrip(lstrip(str))

\* A QuestionBase carries text, question_type, options, category and
\* weight and has no attribute id.
QuestionBase(text, question_type, options) ==
    [text |-> text, question_type |-> question_type, options |-> options,
     category |-> "cognitive", weight |-> Rat(1, 1)]

\* A Question is a QuestionBase with an id; a caller of the handler may
\* pass one where a QuestionBase is expected.
Question(id, text, question_type, options) ==
    [id |-> id, text |-> text, question_type |-> question_type,
     options |-> options, category |-> "cognitive", weight |-> Rat(1, 1)]

\* Numbers of questions around the two limits.
QuestionCounts ==
    {0, 1, min_questions - 1, min_questions, max_questions, max_questions + 1}

\* The question lists of the requests: n questions as parsed from a JSON
\* body (QuestionBase), n Question objects with ids 1..n, and lists of
\* min_questions Question objects with a repeated id, a blank text or a
\* multiple choice question with one option.
QuestionLists ==
    {[i \in 1..n |-> QuestionBase("Question", "scale", None)] :
        n \in QuestionCounts}
    \cup {[i \in 1..n |-> Question(i, "Question", "scale", None)] :
            n \in QuestionCounts}
    \cup {[i \in 1..min_questions |-> Question(1, "Question", "scale", None)],
          [i \in 1..min_questions |->
              Question(i, IF i = 2 THEN " " ELSE "Question", "scale", None)],
          [i \in 1..min_questions |->
              IF i = 3 THEN Question(i, "Question", "multiple_choice",
                                     Some(<<"a">>))
              ELSE Question(i, "Question", "scale", None)]}

\* AssessmentCreate bodies: title has at least one character.
AssessmentCreate ==
    [title : {"Survey", " "}, version : {"1.0.0"}, questions : QuestionLists]

ValidationError(field, message) == [field |-> field, message |-> message]

\* The errors _validate_questions appends for questions[i] (enumerate
\* counts from 0), question_ids holding the ids of the questions before.
QuestionErrors(qs, i) ==
    LET question == qs[i]
        question_ids == {qs[j].id : j \in 1..(i - 1)}
    IN  (IF question.id \in question_ids
           THEN <<ValidationError(<<"questions", i - 1, "id">>,
                                  <<"Duplicate question ID: ", question.id>>)>>
         ELSE <<>>)
        \o (IF Len(strip(question.text)) = 0
              THEN <<ValidationError(<<"questions", i - 1, "text">>,
                                     <<"Question text is required">>)>>
            ELSE <<>>)
        \o (IF question.question_type = "multiple_choice"
               /\ (question.options = None \/ Len(question.options.some) < 2)
              THEN <<ValidationError(<<"questions", i - 1, "options">>,
                       <<"Multiple choice questions must have at least 2 options">>)>>
            ELSE <<>>)
        \o (IF RatLt(question.weight, Rat(0, 1))
               \/ RatGt(question.weight, Rat(1, 1))
              THEN <<ValidationError(<<"questions", i - 1, "weight">>,
                       <<"Question weight must be between 0 and 1">>)>>
            ELSE <<>>)

\* _validate_questions for questions[first..last], in list order.
RECURSIVE _validate_questions(_, _, _)
_validate_questions(qs, first, last) ==
    IF first > last THEN <<>>
    ELSE IF first = last THEN QuestionErrors(qs, first)
    ELSE LET mid == (first + last) \div 2
         IN  _validate_questions(qs, first, mid)
             \o _validate_questions(qs, mid + 1, last)

\* question.id raises AttributeError for an object without the attribute.
ValidateQuestionsRaises(qs) ==
    \E i \in 1..Len(qs) : "id" \notin DOMAIN qs[i]

\* AssessmentValidator.validate_assessment for a draft assessment: the
\* title error, the question count error, then the question errors.
validate_assessment(assessment, qs) ==
    (IF Len(strip(assessment.title)) = 0
       THEN <<ValidationError(<<"title">>,
                              <<"Assessment title is required">>)>>
     ELSE <<>>)
    \o (IF Len(qs) < min_questions
          THEN <<ValidationError(<<"questions">>,
                   <<"Assessment must have at least ", min_questions,
                     " questions">>)>>
        ELSE IF Len(qs) > max_questions
          THEN <<ValidationError(<<"questions">>,
                   <<"Assessment cannot have more than ", max_questions,
                     " questions">>)>>
        ELSE <<>>)
    \o _validate_questions(qs, 1, Len(qs))

\* AssessmentORM(title, description, version, status=draft) with the next
\* primary key.
AssessmentRow(assessment) ==
    [id |-> Len(assessments) + 1, title |-> assessment.title,
     version |-> assessment.version, status |-> "draft", results |-> None]

\* The QuestionORM rows of the request after the rows stored.
QuestionRows(qs) ==
    [i \in 1..Len(qs) |->
        [id |-> Len(questions) + i, text |-> qs[i].text,
         question_type |-> qs[i].question_type, options |-> qs[i].options,
         category |-> qs[i].category, weight |-> qs[i].weight]]

\* create_assessment(assessment, db).  The validator runs outside the try
\* block: an exception it raises leaves the handler, a list of errors is
\* answered with 400.  Then the assessment row is added and committed
\* (committed_assessment), the question rows are added and committed
\* (committed_questions); an exception of either commit is answered with a
\* rollback and 500.
create_assessment(assessment, committed_assessment, committed_questions) ==
    /\ Len(assessments) < MaxAssessments
    /\ call' = [op |-> "create_assessment", assessment |-> assessment]
    /\ UNCHANGED <<pending, scores, db, responses>>
    /\ IF ValidateQuestionsRaises(assessment.questions)
         THEN /\ ret' = [op |-> "create_assessment", status |-> 500,
                         raised |-> "AttributeError"]
              /\ UNCHANGED <<assessments, questions>>
       ELSE IF Len(validate_assessment(assessment, assessment.questions)) > 0
         THEN /\ ret' = [op |-> "create_assessment", status |-> 400,
                         detail |-> [prefix |-> "Validation failed: ",
                                     errors |-> validate_assessment(
                                         assessment, assessment.questions)]]
              /\ UNCHANGED <<assessments, questions>>
       ELSE IF ~ committed_assessment
         THEN /\ ret' = [op |-> "create_assessment", status |-> 500,
                         detail |-> "Failed to create assessment"]
              /\ UNCHANGED <<assessments, questions>>
       ELSE IF ~ committed_questions
         THEN /\ ret' = [op |-> "create_assessment", status |-> 500,
                         detail |-> "Failed to create assessment"]
              /\ assessments' = Append(assessments, AssessmentRow(assessment))
              /\ questions' = questions
       ELSE /\ ret' = [op |-> "create_assessment", status |-> 201,
                       body |-> AssessmentRow(assessment)]
            /\ assessments' = Append(assessments, AssessmentRow(assessment))
            /\ questions' = questions \o QuestionRows(assessment.questions)

InitCreate ==
    /\ scores = EmptyScores
    /\ call = NoCall
    /\ ret = NoRet
    /\ EmptyDb

NextCreate ==
    \E assessment \in AssessmentCreate,
       committed_assessment, committed_questions \in BOOLEAN :
        create_assessment(assessment, committed_assessment,
                          committed_questions)

SpecCreate == InitCreate /\ [][NextCreate]_vars

\* The error of the violated limit.
LimitError(n) ==
    IF n < min_questions
      THEN ValidationError(<<"questions">>,
             <<"Assessment must have at least ", min_questions, " questions">>)
    ELSE ValidationError(<<"questions">>,
           <<"Assessment cannot have more than ", max_questions, " questions">>)

RejectedForLimit ==
    LET n == Len(call'.assessment.questions)
    IN  call'.op = "create_assessment"
        /\ (n < min_questions \/ n > max_questions)
        => /\ ret'.status = 400
           /\ \E k \in 1..Len(ret'.detail.errors) :
                  ret'.detail.errors[k] = LimitError(n)
           /\ UNCHANGED <<assessments, questions>>

\* C21: a create_assessment request with fewer than min_questions or more
\* than max_questions questions is answered with 400 and a 'Validation
\* failed' detail naming the violated limit, and stores no assessment and
\* no question.
C21_RejectedForLimit == [][RejectedForLimit]_vars

ErrorStoresNothing ==
    call'.op = "create_assessment" /\ ret'.status >= 400
    => UNCHANGED <<assessments, questions>>

ArchetypeType ==
    {"leader", "innovator", "harmonizer", "analyst", "implementer",
     "visionary", "collaborator", "specialist"}

\* get_archetype_definitions(): the dictionary holds one entry.
get_archetype_definitions ==
    "leader" :>
        [archetype_type |-> "leader",
         name |-> "The Leader",
         description |-> "Natural leader who takes charge and inspires others",
         core_traits |-> <<"decisive", "confident", "charismatic">>,
         strengths |-> <<"Strategic thinking", "Team motivation",
                         "Decision making">>,
         challenges |-> <<"Can be domineering", "May overlook details">>,
         jungian_mapping |-> [primary |-> "ENTJ", secondary |-> "ESTJ"]]

\* get_archetype_by_type(archetype_type): dict.get, None for a missing key.
get_archetype_by_type(archetype_type) ==
    IF archetype_type \in DOMAIN get_archetype_definitions
      THEN Some(get_archetype_definitions[archetype_type])
    ELSE None

\* _archetype_to_schema(archetype_def) copies the seven fields.
_archetype_to_schema(archetype_def) ==
    [archetype_type |-> archetype_def.archetype_type,
     name |-> archetype_def.name,
     description |-> archetype_def.description,
     core_traits |-> archetype_def.core_traits,
     strengths |-> archetype_def.strengths,
     challenges |-> archetype_def.challenges,
     jungian_mapping |-> archetype_def.jungian_mapping]

\* get_all_archetypes()
get_all_archetypes ==
    /\ call' = [op |-> "get_all_archetypes"]
    /\ ret' = [op |-> "get_all_archetypes", status |-> 200,
               archetypes |->
                   [k \in DOMAIN get_archetype_definitions |->
                       _archetype_to_schema(get_archetype_definitions[k])]]
    /\ UNCHANGED <<pending, scores, db, adb>>

\* get_archetype(archetype_type): ArchetypeType(archetype_type.lower())
\* raises ValueError for a string that is no value of the enum, answered
\* 404; _archetype_to_schema reads the attributes of what
\* get_archetype_by_type returned, which raises AttributeError for None.
get_archetype(archetype_type) ==
    /\ call' = [op |-> "get_archetype", archetype_type |-> archetype_type]
    /\ ret' = IF lower(archetype_type) \notin ArchetypeType
                THEN [op |-> "get_archetype", status |-> 404,
                      detail |-> <<"Archetype type '", archetype_type,
                                   "' not found">>]
              ELSE IF get_archetype_by_type(lower(archetype_type)) = None
                THEN [op |-> "get_archetype", status |-> 500,
                      raised |-> "AttributeError"]
              ELSE [op |-> "get_archetype", status |-> 200,
                    body |-> _archetype_to_schema(
                        get_archetype_by_type(lower(archetype_type)).some)]
    /\ UNCHANGED <<pending, scores, db, adb>>

MaxMixed == 4

\* str with the characters at the positions in mask in upper case.
RECURSIVE MixedCase(_, _, _)
MixedCase(str, mask, i) ==
    IF i > Len(str) THEN ""
    ELSE (IF i \in mask THEN UpperChar(CharAt(str, i)) ELSE CharAt(str, i))
         \o MixedCase(str, mask, i + 1)

\* Path parameters: every enum value and three other strings, with each
\* choice of upper case among the first MaxMixed characters.
ArchetypeTypeInputs ==
    {MixedCase(str, mask, 1) :
        str \in ArchetypeType \cup {"wizard", "leaders", ""},
        mask \in SUBSET (1..MaxMixed)}

InitArchetypes ==
    /\ scores = EmptyScores
    /\ call = NoCall
    /\ ret = NoRet
    /\ EmptyDb

NextArchetypes ==
    \/ get_all_archetypes
    \/ \E archetype_type \in ArchetypeTypeInputs : get_archetype(archetype_type)

SpecArchetypes == InitArchetypes /\ [][NextArchetypes]_vars

\* C23: get_archetype answers 404 when the type, compared without regard
\* to case, is unknown and 200 with the definition otherwise, never an
\* internal error.
C23_GetArchetype ==
    ret.op = "get_archetype"
    => /\ ret.status \in {200, 404}
       /\ lower(call.archetype_type) \notin ArchetypeType => ret.status = 404
       /\ ret.status = 200
          => ret.body.archetype_type = lower(call.archetype_type)
\* ---------------------------------------------------------------------
\* The CLI commands and the stored analyses and profiles.
\* ---------------------------------------------------------------------

\* The TeamAnalysis rows of a team.
AnalysesOf(team_id) ==
    SelectSeq(team_analyses, LAMBDA a : a.team_id = team_id)

\* C24: recommend for an existing team with members exits with code 1
\* while no TeamAnalysis row is stored for the team, and emits
\* recommendations only once analyze_team has stored one.
C24_RecommendNeedsAnalysis ==
    ret.op = "recommend" /\ TeamById(call.team_id) # None
        /\ Len(MembersOf(call.team_id)) > 0
    => IF Len(AnalysesOf(call.team_id)) = 0
         THEN ret.exit_code = 1
       ELSE ret.exit_code = 0 /\ ret.rec_count >= 0
\* The command was given a user or team that does not exist, or a team
\* without members.
MissingTarget ==
    \/ call'.op = "assess" /\ call'.user_id \notin Users
    \/ /\ call'.op \in {"analyze_team", "recommend"}
       /\ \/ TeamById(call'.team_id) = None
          \/ Len(MembersOf(call'.team_id)) = 0

MissingTargetStep ==
    MissingTarget
    => /\ ret'.exit_code = 1
       /\ ret'.session.rolled_back
       /\ ret'.session.closed
       /\ ~ ret'.session.committed
       /\ user_profiles' = user_profiles
       /\ team_analyses' = team_analyses

\* C25: assess, analyze_team or recommend given a user or team that does
\* not exist, or a team without members, exits with code 1, its session is
\* rolled back and closed, and no UserProfile or TeamAnalysis row is
\* created or changed.
C25_MissingTarget == [][MissingTargetStep]_vars

\* assess ran for an unknown user on a database that holds profile and
\* analysis rows.
C25_Witness ==
    /\ ret.op = "assess" /\ call.user_id \notin Users
    /\ ret.exit_code = 1 /\ ret.session.rolled_back /\ ret.session.closed
    /\ Len(user_profiles) > 0 /\ Len(team_analyses) > 0

\* Runs of assess only, with every assessment type, on a database where
\* a user has no profile row or a seeded one.
InitAssess ==
    /\ scores = EmptyScores
    /\ call = NoCall
    /\ ret = NoRet
    /\ teams = <<>>
    /\ team_members = <<>>
    /\ \E seeds \in [Users -> {None,
                                [jungian_type |-> "",
                                 trait_scores |-> [mbti_type |-> "ISTP"]]}] :
          user_profiles = SeedRows(seeds, MaxUsers)
    /\ team_analyses = <<>>
    /\ accepted = <<>>
    /\ assessments = <<>>
    /\ questions = <<>>
    /\ responses = <<>>
    /\ pending = <<>>

NextAssess ==
    \E user_id \in 1..(MaxUsers + 1), assessment_type \in AssessmentType,
       committed \in BOOLEAN :
        assess(user_id, assessment_type, committed)

SpecAssess == InitAssess /\ [][NextAssess]_vars

\* Every user has at most one profile row.
OneProfilePerUser ==
    \A i, j \in 1..Len(user_profiles) :
        user_profiles[i].user_id = user_profiles[j].user_id => i = j

\* A successful assess creates the user's row when there is none and
\* otherwise updates the row that is there; the other rows stay.
CreateOrUpdate ==
    call'.op = "assess" /\ ret'.exit_code = 0
    => LET user_id == call'.user_id
       IN  /\ IF ProfileIndex(user_id) = {}
                THEN /\ Len(user_profiles') = Len(user_profiles) + 1
                     /\ user_profiles'[Len(user_profiles')].user_id = user_id
              ELSE Len(user_profiles') = Len(user_profiles)
           /\ \A i \in 1..Len(user_profiles) :
                  /\ user_profiles'[i].id = user_profiles[i].id
                  /\ user_profiles'[i].user_id = user_profiles[i].user_id
                  /\ user_profiles[i].user_id # user_id
                     => user_profiles'[i] = user_profiles[i]
           /\ \E i \in 1..Len(user_profiles') :
                  /\ user_profiles'[i].user_id = user_id
                  /\ user_profiles'[i].jungian_type = ret'.mbti_type

AssessStep ==
    /\ OneProfilePerUser => OneProfilePerUser'
    /\ CreateOrUpdate

\* C26: after any sequence of assess runs, whatever the assessment type,
\* every user has at most one UserProfile: the first successful assess
\* creates the row and every later one updates that same row.
C26_OneProfilePerUser == [][AssessStep]_vars

\* A second successful assess of a user, of another assessment type than
\* the default, left the table with that user's single row.
C26_Witness ==
    /\ ret.op = "assess" /\ ret.exit_code = 0
    /\ call.assessment_type # "full"
    /\ Len(user_profiles) = MaxUsers
    /\ OneProfilePerUser
\* ---------------------------------------------------------------------
\* classify and patterns with equal match scores.
\* ---------------------------------------------------------------------

\* The position of an archetype in the pattern table.
TableIndex(archetype) ==
    CHOOSE i \in 1..Len(archetype_patterns) :
        archetype_patterns[i].archetype = archetype

\* C27: when the patterns ranked first and second have the same match
\* score, classify ranks them in the order of the pattern table; the empty
\* profile gets the first pattern as primary, the second as secondary and
\* confidence 0.
C27_TiesInTableOrder ==
    ret.op = "classify" /\ ret.raised = "none"
    => /\ RatEq(MatchScoreOf(ret.trait_scores, ret.primary_archetype),
                MatchScoreOf(ret.trait_scores, ret.secondary_archetype))
          => TableIndex(ret.primary_archetype)
               < TableIndex(ret.secondary_archetype)
       /\ DOMAIN ret.trait_scores = {}
          => /\ ret.primary_archetype = archetype_patterns[1].archetype
             /\ ret.secondary_archetype = archetype_patterns[2].archetype
             /\ RatEq(ret.confidence, Rat(0, 1))

\* The empty profile was classified.
C27_Witness ==
    /\ ret.op = "classify" /\ ret.raised = "none"
    /\ DOMAIN ret.trait_scores = {}
    /\ ret.primary_archetype = "LEADER"
    /\ ret.secondary_archetype = "ANALYST"

\* A profile with scores whose two match scores are equal and positive.
TieAboveZero ==
    /\ ret.op = "classify" /\ ret.raised = "none"
    /\ DOMAIN ret.trait_scores # {}
    /\ RatEq(MatchScoreOf(ret.trait_scores, "LEADER"),
             MatchScoreOf(ret.trait_scores, "ANALYST"))
    /\ RatLt(Rat(0, 1), ret.confidence)
\* ---------------------------------------------------------------------
\* Concurrent POST /teams/ requests (api/routes/teams.py create_team).
\* Each request runs in a server process of its own on the shared
\* database: it looks up the name, and in a later step adds the row and
\* commits.  Table teams has no unique constraint on name, so the commit
\* of a second row with a name already stored goes through.
\* ---------------------------------------------------------------------

MaxRequests == 3
Requests == 1..MaxRequests

\* create_team up to the lookup of the name: 422 for an invalid body, 400
\* when a team with the name is found, otherwise the request goes on to
\* the insert.
create_team_lookup(request, name, description) ==
    /\ pending[request].pc = "start"
    /\ call' = [op |-> "create_team", name |-> name,
                description |-> description, request |-> request]
    /\ IF ~ TeamCreateValid(name)
         THEN /\ ret' = [op |-> "create_team", status |-> 422]
              /\ pending' = [pending EXCEPT ![request] =
                                [pc |-> "done", name |-> name,
                                 status |-> 422]]
       ELSE IF TeamByName(name) # None
         THEN /\ ret' = [op |-> "create_team", status |-> 400]
              /\ pending' = [pending EXCEPT ![request] =
                                [pc |-> "done", name |-> name,
                                 status |-> 400]]
       ELSE /\ ret' = NoRet
            /\ pending' = [pending EXCEPT ![request] =
                              [pc |-> "insert", name |-> name,
                               description |-> description]]
    /\ UNCHANGED <<scores, db, adb>>

\* create_team from db.add to the response: the row gets the next id and
\* the commit succeeds.
create_team_commit(request) ==
    /\ pending[request].pc = "insert"
    /\ LET name == pending[request].name
           description == pending[request].description
           db_team == [id |-> Len(teams) + 1, name |-> name,
                       description |-> description]
       IN /\ call' = [op |-> "create_team", name |-> name,
                      description |-> description, request |-> request]
          /\ teams' = Append(teams, db_team)
          /\ accepted' = Append(accepted,
                 [name |-> name, description |-> description,
                  members |-> {}])
          /\ ret' = [op |-> "create_team", status |-> 201,
                     body |-> [id |-> db_team.id, name |-> name,
                               description |-> description,
                               members |-> <<>>]]
          /\ pending' = [pending EXCEPT ![request] =
                            [pc |-> "done", name |-> name, status |-> 201]]
    /\ UNCHANGED <<scores, adb, team_members, user_profiles, team_analyses>>

InitConcurrent ==
    /\ scores = EmptyScores
    /\ call = NoCall
    /\ ret = NoRet
    /\ teams = <<>>
    /\ team_members = <<>>
    /\ user_profiles = <<>>
    /\ team_analyses = <<>>
    /\ accepted = <<>>
    /\ assessments = <<>>
    /\ questions = <<>>
    /\ responses = <<>>
    /\ pending = [request \in Requests |-> [pc |-> "start"]]

NextConcurrent ==
    \/ \E request \in Requests, name \in NameInputs,
          description \in DescriptionInputs :
          create_team_lookup(request, name, description)
    \/ \E request \in Requests : create_team_commit(request)

SpecConcurrent == InitConcurrent /\ [][NextConcurrent]_vars

\* The requests that were answered for a name.
AnsweredFor(name) ==
    {request \in Requests :
        pending[request].pc = "done" /\ pending[request].name = name}

\* C28: under every interleaving of concurrent create_team requests with
\* the same name, at most one team with that name is stored and every
\* other request is answered 400.
C28_OneTeamPerName ==
    /\ \A i, j \in 1..Len(teams) : teams[i].name = teams[j].name => i = j
    /\ \A name \in NameInputs :
          TeamCreateValid(name)
          => Cardinality({request \in AnsweredFor(name) :
                            pending[request].status # 400}) <= 1
\* ---------------------------------------------------------------------
\* The scores and the completion calculate_results derives from the
\* stored responses.
\* ---------------------------------------------------------------------

InScale(score) == RatLe(Rat(0, 1), score) /\ RatLe(score, Rat(100, 1))

\* C29: every score derived from a stored response lies in [0,100], so
\* building the trait profile never raises and calculate_results never
\* answers 500 because of the responses submit_response accepted.
C29_StoredScoresInScale ==
    /\ \A i \in 1..Len(responses) : InScale(_score_response(responses[i]))
    /\ ~ (/\ ret.op = "calculate_results"
          /\ ret.status = 500
          /\ BuildTraitProfileRaises(ResponsesOf(call.assessment_id)))

\* C30: the completion_percentage calculate_results reports is within
\* [0,100].
C30_CompletionInScale ==
    ret.op = "calculate_results" /\ ret.status = 200
    => InScale(ret.body.results.completion_percentage)

====
